---- MODULE Spec2Model ----
(***************************************************************************)
(* Model of the analytics dashboard's categorization and aggregation       *)
(* engine (ga-client): the source categorizer, the event classifier, the   *)
(* source/medium and channel breakdowns and the period comparator.         *)
(*                                                                         *)
(* The route handlers, the chat tool loop and the client components that   *)
(* call them are modelled after it.                                        *)
(*                                                                         *)
(* JavaScript strings are modelled as sequences of one-character strings,  *)
(* so that toLowerCase, split and includes are computed as the code        *)
(* computes them.                                                          *)
(***************************************************************************)
EXTENDS Integers, Sequences, FiniteSets, TLC

VARIABLES op, pc, input, output, state

vars == <<op, pc, input, output, state>>

(***************************************************************************)
(* Bounds of the explored input space.                                     *)
(***************************************************************************)
\* longest generated source string (over SourceAlphabet)
MaxSourceLen == 3

(***************************************************************************)
(* String helpers (String.prototype.toLowerCase / includes / split).       *)
(***************************************************************************)
UpperCase == <<"A","B","C","D","E","F","G","H","I","J","K","L","M",
               "N","O","P","Q","R","S","T","U","V","W","X","Y","Z">>

LowerCase == <<"a","b","c","d","e","f","g","h","i","j","k","l","m",
               "n","o","p","q","r","s","t","u","v","w","x","y","z">>

\* the lower-case letter of each upper-case letter
LowerOf ==
  [c \in {UpperCase[i] : i \in DOMAIN UpperCase} |->
     LowerCase[CHOOSE i \in DOMAIN UpperCase : UpperCase[i] = c]]

LowerChar(c) == IF c \in DOMAIN LowerOf THEN LowerOf[c] ELSE c

toLowerCase(s) == [i \in 1..Len(s) |-> LowerChar(s[i])]

\* s.includes(t)
Includes(s, t) ==
  \E i \in 0..(Len(s) - Len(t)) : \A k \in 1..Len(t) : s[i + k] = t[k]

\* s.split('.')[0]: the part of s before its first "."
SplitDotFirst(s) ==
  LET dots == {i \in 1..Len(s) : s[i] = "."}
  IN  IF dots = {} THEN s
      ELSE SubSeq(s, 1, (CHOOSE i \in dots : \A j \in dots : i <= j) - 1)

(***************************************************************************)
(* Curated lists (static configuration).                                   *)
(***************************************************************************)
LLM_SOURCES ==
  << <<"c","h","a","t","g","p","t",".","c","o","m">>,
     <<"c","h","a","t",".","o","p","e","n","a","i",".","c","o","m">>,
     <<"o","p","e","n","a","i",".","c","o","m">>,
     <<"p","e","r","p","l","e","x","i","t","y",".","a","i">>,
     <<"p","e","r","p","l","e","x","i","t","y">>,
     <<"c","l","a","u","d","e",".","a","i">>,
     <<"a","n","t","h","r","o","p","i","c",".","c","o","m">>,
     <<"b","a","r","d",".","g","o","o","g","l","e",".","c","o","m">>,
     <<"g","e","m","i","n","i",".","g","o","o","g","l","e",".","c","o","m">>,
     <<"b","i","n","g",".","c","o","m","/","c","h","a","t">>,
     <<"c","o","p","i","l","o","t",".","m","i","c","r","o","s","o","f","t",".","c","o","m">>,
     <<"y","o","u",".","c","o","m">>,
     <<"p","h","i","n","d",".","c","o","m">>,
     <<"p","o","e",".","c","o","m">> >>

LISTING_SOURCES ==
  << <<"y","e","l","p",".","c","o","m">>,
     <<"m",".","y","e","l","p",".","c","o","m">>,
     <<"y","e","l","p">>,
     <<"g","o","o","g","l","e",".","c","o","m","/","m","a","p","s">>,
     <<"m","a","p","s",".","g","o","o","g","l","e",".","c","o","m">>,
     <<"g","o","o","g","l","e",".","c","o","m","/","l","o","c","a","l">>,
     <<"b","u","s","i","n","e","s","s",".","g","o","o","g","l","e",".","c","o","m">>,
     <<"g",".","p","a","g","e">>,
     <<"c","l","u","t","c","h",".","c","o">>,
     <<"e","x","p","e","r","t","i","s","e",".","c","o","m">>,
     <<"t","h","u","m","b","t","a","c","k",".","c","o","m">>,
     <<"h","o","m","e","a","d","v","i","s","o","r",".","c","o","m">>,
     <<"a","n","g","i","e","s","l","i","s","t",".","c","o","m">>,
     <<"a","n","g","i",".","c","o","m">>,
     <<"b","b","b",".","o","r","g">>,
     <<"y","e","l","l","o","w","p","a","g","e","s",".","c","o","m">>,
     <<"m","a","n","t","a",".","c","o","m">>,
     <<"f","a","c","e","b","o","o","k",".","c","o","m","/","b","i","z">>,
     <<"n","e","x","t","d","o","o","r",".","c","o","m">>,
     <<"a","v","v","o",".","c","o","m">>,
     <<"j","u","s","t","i","a",".","c","o","m">>,
     <<"l","a","w","y","e","r","s",".","c","o","m">>,
     <<"h","e","a","l","t","h","g","r","a","d","e","s",".","c","o","m">>,
     <<"z","o","c","d","o","c",".","c","o","m">>,
     <<"v","i","t","a","l","s",".","c","o","m">>,
     <<"h","o","u","z","z",".","c","o","m">>,
     <<"b","u","i","l","d","z","o","o","m",".","c","o","m">>,
     <<"c","p","a","f","e","e",".","c","o","m">>,
     <<"d","e","s","i","g","n","r","u","s","h",".","c","o","m">>,
     <<"u","p","c","i","t","y",".","c","o","m">> >>

ORGANIC_SEARCH_ENGINES ==
  << <<"g","o","o","g","l","e">>,
     <<"b","i","n","g">>,
     <<"y","a","h","o","o">>,
     <<"d","u","c","k","d","u","c","k","g","o">>,
     <<"b","a","i","d","u">>,
     <<"y","a","n","d","e","x">>,
     <<"e","c","o","s","i","a">>,
     <<"b","r","a","v","e">>,
     <<"s","t","a","r","t","p","a","g","e">> >>

SOCIAL_SOURCES ==
  << <<"f","a","c","e","b","o","o","k">>,
     <<"i","n","s","t","a","g","r","a","m">>,
     <<"t","w","i","t","t","e","r">>,
     <<"l","i","n","k","e","d","i","n">>,
     <<"t","i","k","t","o","k">>,
     <<"p","i","n","t","e","r","e","s","t">> >>

s_cpc == <<"c","p","c">>
s_ppc == <<"p","p","c">>
s_paid == <<"p","a","i","d">>
s_organic == <<"o","r","g","a","n","i","c">>
s_social == <<"s","o","c","i","a","l">>
s_referral == <<"r","e","f","e","r","r","a","l">>
s_direct == <<"d","i","r","e","c","t">>
s_pdirect == <<"(","d","i","r","e","c","t",")">>
s_pnone == <<"(","n","o","n","e",")">>

(***************************************************************************)
(* Source Categorizer.                                                     *)
(***************************************************************************)
Categories ==
  {"organicSearch", "paidSearch", "llmAI", "listings",
   "social", "referral", "direct", "other"}

\* llm.split('.')[0] for each entry of LLM_SOURCES
LLMTokens == [i \in DOMAIN LLM_SOURCES |-> SplitDotFirst(LLM_SOURCES[i])]

\* listing.split('.')[0] for each entry of LISTING_SOURCES
ListingTokens ==
  [i \in DOMAIN LISTING_SOURCES |-> SplitDotFirst(LISTING_SOURCES[i])]

\* LLM_SOURCES.some(llm => sourceLower.includes(llm.split('.')[0]))
IsLLMSource(sourceLower) ==
  \E i \in DOMAIN LLMTokens : Includes(sourceLower, LLMTokens[i])

\* LISTING_SOURCES.some(listing => sourceLower.includes(listing.split('.')[0]))
IsListingSource(sourceLower) ==
  \E i \in DOMAIN ListingTokens : Includes(sourceLower, ListingTokens[i])

IsPaidMedium(mediumLower) ==
  \/ mediumLower = s_cpc
  \/ mediumLower = s_ppc
  \/ mediumLower = s_paid
  \/ Includes(mediumLower, s_paid)

IsOrganicSearch(sourceLower, mediumLower) ==
  /\ mediumLower = s_organic
  /\ \E i \in DOMAIN ORGANIC_SEARCH_ENGINES :
        Includes(sourceLower, ORGANIC_SEARCH_ENGINES[i])

IsSocial(sourceLower, mediumLower) ==
  \/ Includes(mediumLower, s_social)
  \/ \E i \in DOMAIN SOCIAL_SOURCES : Includes(sourceLower, SOCIAL_SOURCES[i])

IsReferral(mediumLower) == mediumLower = s_referral

IsDirect(sourceLower, mediumLower) ==
  \/ sourceLower = s_pdirect
  \/ mediumLower = s_pnone
  \/ mediumLower = s_direct

\* categorizeSource with the default branch returning a tag outside the
\* breakdown's keys
categorizeSource_unknown(source, medium) ==
  LET sourceLower == toLowerCase(source)
      mediumLower == toLowerCase(medium)
  IN  IF IsLLMSource(sourceLower) THEN "llmAI"
      ELSE IF IsListingSource(sourceLower) THEN "listings"
      ELSE IF IsPaidMedium(mediumLower) THEN "paidSearch"
      ELSE IF IsOrganicSearch(sourceLower, mediumLower) THEN "organicSearch"
      ELSE IF IsSocial(sourceLower, mediumLower) THEN "social"
      ELSE IF IsReferral(mediumLower) THEN "referral"
      ELSE IF IsDirect(sourceLower, mediumLower) THEN "direct"
      ELSE "unknown"

\* categorizeSource with the paid-medium check moved before the source checks
categorizeSource_paidFirst(source, medium) ==
  LET sourceLower == toLowerCase(source)
      mediumLower == toLowerCase(medium)
  IN  IF IsPaidMedium(mediumLower) THEN "paidSearch"
      ELSE IF IsLLMSource(sourceLower) THEN "llmAI"
      ELSE IF IsListingSource(sourceLower) THEN "listings"
      ELSE IF IsOrganicSearch(sourceLower, mediumLower) THEN "organicSearch"
      ELSE IF IsSocial(sourceLower, mediumLower) THEN "social"
      ELSE IF IsReferral(mediumLower) THEN "referral"
      ELSE IF IsDirect(sourceLower, mediumLower) THEN "direct"
      ELSE "other"

\* categorizeSource without the referral rule
categorizeSource_noReferral(source, medium) ==
  LET sourceLower == toLowerCase(source)
      mediumLower == toLowerCase(medium)
  IN  IF IsLLMSource(sourceLower) THEN "llmAI"
      ELSE IF IsListingSource(sourceLower) THEN "listings"
      ELSE IF IsPaidMedium(mediumLower) THEN "paidSearch"
      ELSE IF IsOrganicSearch(sourceLower, mediumLower) THEN "organicSearch"
      ELSE IF IsSocial(sourceLower, mediumLower) THEN "social"
      ELSE IF IsDirect(sourceLower, mediumLower) THEN "direct"
      ELSE "other"

\* categorizeSource without the organic-search rule
categorizeSource_noOrganic(source, medium) ==
  LET sourceLower == toLowerCase(source)
      mediumLower == toLowerCase(medium)
  IN  IF IsLLMSource(sourceLower) THEN "llmAI"
      ELSE IF IsListingSource(sourceLower) THEN "listings"
      ELSE IF IsPaidMedium(mediumLower) THEN "paidSearch"
      ELSE IF IsSocial(sourceLower, mediumLower) THEN "social"
      ELSE IF IsReferral(mediumLower) THEN "referral"
      ELSE IF IsDirect(sourceLower, mediumLower) THEN "direct"
      ELSE "other"

\* categorizeSource with the social check moved before the source checks
categorizeSource_socialFirst(source, medium) ==
  LET sourceLower == toLowerCase(source)
      mediumLower == toLowerCase(medium)
  IN  IF IsSocial(sourceLower, mediumLower) THEN "social"
      ELSE IF IsLLMSource(sourceLower) THEN "llmAI"
      ELSE IF IsListingSource(sourceLower) THEN "listings"
      ELSE IF IsPaidMedium(mediumLower) THEN "paidSearch"
      ELSE IF IsOrganicSearch(sourceLower, mediumLower) THEN "organicSearch"
      ELSE IF IsReferral(mediumLower) THEN "referral"
      ELSE IF IsDirect(sourceLower, mediumLower) THEN "direct"
      ELSE "other"

categorizeSource(source, medium) ==
  LET sourceLower == toLowerCase(source)
      mediumLower == toLowerCase(medium)
  IN  IF IsLLMSource(sourceLower) THEN "llmAI"
      ELSE IF IsListingSource(sourceLower) THEN "listings"
      ELSE IF IsPaidMedium(mediumLower) THEN "paidSearch"
      ELSE IF IsOrganicSearch(sourceLower, mediumLower) THEN "organicSearch"
      ELSE IF IsSocial(sourceLower, mediumLower) THEN "social"
      ELSE IF IsReferral(mediumLower) THEN "referral"
      ELSE IF IsDirect(sourceLower, mediumLower) THEN "direct"
      ELSE "other"

(***************************************************************************)
(* Backend rows.  A row has a sequence of dimension values and a sequence  *)
(* of metric values, read by position; a value is a string, or Missing     *)
(* when the row does not have it (undefined).  Missing is a one-element    *)
(* sequence that no string equals, since the characters of a string are    *)
(* single characters.                                                      *)
(***************************************************************************)
Missing == <<"undefined">>

\* row.dimensionValues?.[i]?.value (i counted from 0)
DimensionValue(row, i) ==
  IF (i + 1) \in DOMAIN row.dimensionValues
    THEN row.dimensionValues[i + 1] ELSE Missing

\* row.metricValues?.[i]?.value (i counted from 0)
MetricValue(row, i) ==
  IF (i + 1) \in DOMAIN row.metricValues
    THEN row.metricValues[i + 1] ELSE Missing

\* value || "1": the default asked for is replaced by another one
OrDefault_one(value, dflt) ==
  IF value = Missing \/ value = <<>> THEN <<"1">> ELSE value

\* value || dflt: undefined and the empty string are falsy
OrDefault(value, dflt) ==
  IF value = Missing \/ value = <<>> THEN dflt ELSE value

s_0 == <<"0">>

Digits == <<"0","1","2","3","4","5","6","7","8","9">>

IsDigit(c) == \E i \in DOMAIN Digits : Digits[i] = c

DigitValue(c) == (CHOOSE i \in DOMAIN Digits : Digits[i] = c) - 1

NaN == "NaN"

RECURSIVE DecimalValue(_)
\* the number written by a sequence of digits
DecimalValue(s) ==
  IF s = <<>> THEN 0
  ELSE 10 * DecimalValue(SubSeq(s, 1, Len(s) - 1)) + DigitValue(s[Len(s)])

\* length of the longest prefix of s made of digits
DigitPrefixLen(s) ==
  LET stops == {i \in 1..Len(s) : ~IsDigit(s[i])}
  IN  IF stops = {} THEN Len(s)
      ELSE (CHOOSE i \in stops : \A j \in stops : i <= j) - 1

\* parseInt(s) for an unsigned string: the digits it starts with, NaN if none
parseInt(s) ==
  IF DigitPrefixLen(s) = 0 THEN NaN
  ELSE DecimalValue(SubSeq(s, 1, DigitPrefixLen(s)))

RECURSIVE Pow10(_)
Pow10(k) == IF k = 0 THEN 1 ELSE 10 * Pow10(k - 1)

(***************************************************************************)
(* Quotients.  The rates are JavaScript numbers; they are modelled as      *)
(* exact fractions [n, d] in lowest terms with d > 0.                      *)
(***************************************************************************)
Abs(x) == IF x < 0 THEN -x ELSE x

RECURSIVE GCD(_, _)
GCD(a, b) == IF b = 0 THEN a ELSE GCD(b, a % b)

\* F(v) and F(v, w), with the arguments evaluated once before F is expanded
Once(v, F(_)) == CHOOSE r \in {F(x) : x \in {v}} : TRUE

Once2(v, w, F(_, _)) == CHOOSE r \in {F(x, y) : x \in {v}, y \in {w}} : TRUE

Frac(n, d) ==
  Once2(n, d, LAMBDA a, b :
    LET g == GCD(Abs(a), Abs(b))
        sg == IF b < 0 THEN -1 ELSE 1
    IN  [n |-> sg * (a \div g), d |-> sg * (b \div g)])

Num(x) == [n |-> x, d |-> 1]

\* the sums are formed over the least common denominator
FracAdd(x, y) ==
  Once2(x, y, LAMBDA a, b :
    LET g == GCD(a.d, b.d)
    IN  Frac(a.n * (b.d \div g) + b.n * (a.d \div g), a.d * (b.d \div g)))

FracSub(x, y) ==
  Once2(x, y, LAMBDA a, b :
    LET g == GCD(a.d, b.d)
    IN  Frac(a.n * (b.d \div g) - b.n * (a.d \div g), a.d * (b.d \div g)))

FracMul(x, y) == Once2(x, y, LAMBDA a, b : Frac(a.n * b.n, a.d * b.d))

\* x / y for y # 0
FracDiv(x, y) == Once2(x, y, LAMBDA a, b : Frac(a.n * b.d, a.d * b.n))

\* parseFloat(s) for an unsigned decimal string: the digits it starts with
\* and, after a ".", the digits that follow; NaN if there is no digit
parseFloat(s) ==
  LET ip == DigitPrefixLen(s)
      rest == IF ip < Len(s) /\ s[ip + 1] = "."
                THEN SubSeq(s, ip + 2, Len(s)) ELSE <<>>
      fp == DigitPrefixLen(rest)
  IN  IF ip = 0 /\ fp = 0 THEN NaN
      ELSE Frac(DecimalValue(SubSeq(s, 1, ip)) * Pow10(fp)
                  + DecimalValue(SubSeq(rest, 1, fp)),
                Pow10(fp))

(***************************************************************************)
(* Event Classifier.  The two lists are written twice in the source, with  *)
(* the same entries (getDetailedChannelBreakdown, getConversionsByChannel).*)
(***************************************************************************)
formEventNames ==
  << <<"f","o","r","m","_","s","u","b","m","i","t">>,
     <<"g","e","n","e","r","a","t","e","_","l","e","a","d">>,
     <<"c","o","n","t","a","c","t","_","f","o","r","m">>,
     <<"f","o","r","m","_","s","u","b","m","i","s","s","i","o","n">>,
     <<"s","u","b","m","i","t","_","f","o","r","m">>,
     <<"l","e","a","d","_","f","o","r","m">> >>

phoneEventNames ==
  << <<"p","h","o","n","e","_","c","l","i","c","k">>,
     <<"c","l","i","c","k","_","t","o","_","c","a","l","l">>,
     <<"t","e","l","_","c","l","i","c","k">>,
     <<"p","h","o","n","e","_","c","a","l","l">>,
     <<"c","a","l","l","_","c","l","i","c","k">>,
     <<"p","h","o","n","e">> >>

\* formEventNames.some(e => eventName.includes(e))
IsFormEvent(eventName) ==
  \E i \in DOMAIN formEventNames : Includes(eventName, formEventNames[i])

\* phoneEventNames.some(e => eventName.includes(e))
IsPhoneEvent(eventName) ==
  \E i \in DOMAIN phoneEventNames : Includes(eventName, phoneEventNames[i])

\* the if / else-if of the event loops: what a row adds to forms and to
\* phones
EventForms(eventName, count) ==
  IF IsFormEvent(eventName) THEN count ELSE 0

EventPhones_both(eventName, count) ==
  IF IsPhoneEvent(eventName) THEN count ELSE 0

EventPhones(eventName, count) ==
  IF IsFormEvent(eventName) THEN 0
  ELSE IF IsPhoneEvent(eventName) THEN count ELSE 0

(***************************************************************************)
(* getDetailedChannelBreakdown.                                            *)
(***************************************************************************)
s_bar == <<"|">>

\* `${source}|${medium}`
SourceMediumKey(source, medium) == source \o s_bar \o medium

\* the rows the loops visit: none when response.rows is absent
RowsOf(response) ==
  IF "rows" \in DOMAIN response THEN response.rows ELSE <<>>

RECURSIVE EventDataForms(_, _)
\* eventData.get(key).forms after the loop over the event rows; 0 also when
\* the key is absent
EventDataForms(rows, key) ==
  IF rows = <<>> THEN 0
  ELSE LET row == rows[Len(rows)]
           source == OrDefault(DimensionValue(row, 0), <<>>)
           medium == OrDefault(DimensionValue(row, 1), <<>>)
           eventName == toLowerCase(OrDefault(DimensionValue(row, 2), <<>>))
           count == parseInt(OrDefault(MetricValue(row, 0), s_0))
       IN  EventDataForms(SubSeq(rows, 1, Len(rows) - 1), key)
             + (IF SourceMediumKey(source, medium) = key
                  THEN EventForms(eventName, count) ELSE 0)

RECURSIVE EventDataPhones(_, _)
EventDataPhones(rows, key) ==
  IF rows = <<>> THEN 0
  ELSE LET row == rows[Len(rows)]
           source == OrDefault(DimensionValue(row, 0), <<>>)
           medium == OrDefault(DimensionValue(row, 1), <<>>)
           eventName == toLowerCase(OrDefault(DimensionValue(row, 2), <<>>))
           count == parseInt(OrDefault(MetricValue(row, 0), s_0))
       IN  EventDataPhones(SubSeq(rows, 1, Len(rows) - 1), key)
             + (IF SourceMediumKey(source, medium) = key
                  THEN EventPhones(eventName, count) ELSE 0)

\* sessions > 0 ? (conversions / sessions) * 100 : 0
SourceClickToLeadRate(conversions, sessions) ==
  IF sessions > 0
    THEN FracMul(FracDiv(Num(conversions), Num(sessions)), Num(100))
    ELSE Num(0)

\* the SourceMetrics object built for one source row
SourceMetricsOf(row, eventRows) ==
  LET source == OrDefault(DimensionValue(row, 0), <<>>)
      medium == OrDefault(DimensionValue(row, 1), <<>>)
      users == parseInt(OrDefault(MetricValue(row, 0), s_0))
      sessions == parseInt(OrDefault(MetricValue(row, 1), s_0))
      conversions == parseInt(OrDefault(MetricValue(row, 2), s_0))
      key == SourceMediumKey(source, medium)
  IN  [source |-> source,
       medium |-> medium,
       category |-> categorizeSource(source, medium),
       users |-> users,
       sessions |-> sessions,
       conversions |-> conversions,
       formSubmissions |-> EventDataForms(eventRows, key),
       phoneCalls |-> EventDataPhones(eventRows, key),
       clickToLeadRate |-> SourceClickToLeadRate(conversions, sessions)]

\* the SourceMetrics objects built by the loop, in the order of the rows
SourceEntries(rows, eventRows) ==
  [i \in 1..Len(rows) |-> SourceMetricsOf(rows[i], eventRows)]

\* breakdown[category] after the loop: the entries pushed to it, in order
PushedTo_dropOther(category, entries) ==
  IF category = "other" THEN <<>>
  ELSE SelectSeq(entries, LAMBDA m : m.category = category)

PushedTo(category, entries) ==
  SelectSeq(entries, LAMBDA m : m.category = category)

RECURSIVE SortBySessions_ascending(_)
SortBySessions_ascending(seq) ==
  IF seq = <<>> THEN <<>>
  ELSE LET rest == SortBySessions_ascending(SubSeq(seq, 1, Len(seq) - 1))
           x == seq[Len(seq)]
           before == {i \in 1..Len(rest) : rest[i].sessions <= x.sessions}
           k == Cardinality(before)
       IN  SubSeq(rest, 1, k) \o <<x>> \o SubSeq(rest, k + 1, Len(rest))

RECURSIVE SortBySessions(_)
\* seq.sort((a, b) => b.sessions - a.sessions): a stable sort, descending
SortBySessions(seq) ==
  IF seq = <<>> THEN <<>>
  ELSE LET rest == SortBySessions(SubSeq(seq, 1, Len(seq) - 1))
           x == seq[Len(seq)]
           \* x goes after every element with at least as many sessions
           before == {i \in 1..Len(rest) : rest[i].sessions >= x.sessions}
           k == Cardinality(before)
       IN  SubSeq(rest, 1, k) \o <<x>> \o SubSeq(rest, k + 1, Len(rest))

getDetailedChannelBreakdown(sourceResponse, eventsResponse) ==
  Once(SourceEntries(RowsOf(sourceResponse), RowsOf(eventsResponse)),
       LAMBDA entries :
         [category \in Categories |->
            SortBySessions(PushedTo(category, entries))])

(***************************************************************************)
(* getConversionsByChannel.  The search-console query either throws or     *)
(* returns a response; the throw is caught and leaves clicksByChannel      *)
(* empty.                                                                  *)
(***************************************************************************)
Throws == [throws |-> TRUE]

\* clicksByChannel.get(channel) || sessions: the clicks of the last search
\* row of the channel, sessions when there is none or when it is 0
ClicksOrSessions(searchResult, channel, sessions) ==
  LET rows == IF searchResult = Throws THEN <<>> ELSE RowsOf(searchResult)
      hits == {i \in DOMAIN rows :
                 OrDefault(DimensionValue(rows[i], 0), <<>>) = channel}
      last == CHOOSE i \in hits : \A j \in hits : j <= i
      clicks == parseInt(OrDefault(MetricValue(rows[last], 0), s_0))
  IN  IF hits = {} THEN sessions
      ELSE IF clicks = 0 THEN sessions ELSE clicks

RECURSIVE ChannelDataForms(_, _)
\* channelData.get(channel).forms after the loop over the event rows; 0 also
\* when the channel is absent
ChannelDataForms(rows, channel) ==
  IF rows = <<>> THEN 0
  ELSE LET row == rows[Len(rows)]
           eventName == toLowerCase(OrDefault(DimensionValue(row, 1), <<>>))
           count == parseInt(OrDefault(MetricValue(row, 0), s_0))
       IN  ChannelDataForms(SubSeq(rows, 1, Len(rows) - 1), channel)
             + (IF OrDefault(DimensionValue(row, 0), <<>>) = channel
                  THEN EventForms(eventName, count) ELSE 0)

RECURSIVE ChannelDataPhones(_, _)
ChannelDataPhones(rows, channel) ==
  IF rows = <<>> THEN 0
  ELSE LET row == rows[Len(rows)]
           eventName == toLowerCase(OrDefault(DimensionValue(row, 1), <<>>))
           count == parseInt(OrDefault(MetricValue(row, 0), s_0))
       IN  ChannelDataPhones(SubSeq(rows, 1, Len(rows) - 1), channel)
             + (IF OrDefault(DimensionValue(row, 0), <<>>) = channel
                  THEN EventPhones(eventName, count) ELSE 0)

RECURSIVE TotalForms(_)
\* totalForms after the loop over the event rows
TotalForms(rows) ==
  IF rows = <<>> THEN 0
  ELSE LET row == rows[Len(rows)]
           eventName == toLowerCase(OrDefault(DimensionValue(row, 1), <<>>))
           count == parseInt(OrDefault(MetricValue(row, 0), s_0))
       IN  TotalForms(SubSeq(rows, 1, Len(rows) - 1))
             + EventForms(eventName, count)

RECURSIVE TotalPhones(_)
\* totalPhones after the loop over the event rows
TotalPhones(rows) ==
  IF rows = <<>> THEN 0
  ELSE LET row == rows[Len(rows)]
           eventName == toLowerCase(OrDefault(DimensionValue(row, 1), <<>>))
           count == parseInt(OrDefault(MetricValue(row, 0), s_0))
       IN  TotalPhones(SubSeq(rows, 1, Len(rows) - 1))
             + EventPhones(eventName, count)

\* clicks > 0 ? (conversions / clicks) * 100 : 0
ChannelClickToLeadRate(conversions, clicks) ==
  IF clicks > 0
    THEN FracMul(FracDiv(Num(conversions), Num(clicks)), Num(100))
    ELSE Num(0)

\* the ChannelMetrics object built for one channel row
ChannelMetricsOf(row, eventRows, searchResult) ==
  LET channel == OrDefault(DimensionValue(row, 0), <<>>)
      users == parseInt(OrDefault(MetricValue(row, 0), s_0))
      sessions == parseInt(OrDefault(MetricValue(row, 1), s_0))
      conversions == parseInt(OrDefault(MetricValue(row, 2), s_0))
      clicks == ClicksOrSessions(searchResult, channel, sessions)
  IN  [channel |-> channel,
       users |-> users,
       sessions |-> sessions,
       clicks |-> clicks,
       conversions |-> conversions,
       formSubmissions |-> ChannelDataForms(eventRows, channel),
       phoneCalls |-> ChannelDataPhones(eventRows, channel),
       clickToLeadRate |-> ChannelClickToLeadRate(conversions, clicks)]

RECURSIVE TotalConversions(_)
\* totalConversions after the loop over the channel rows
TotalConversions(rows) ==
  IF rows = <<>> THEN 0
  ELSE TotalConversions(SubSeq(rows, 1, Len(rows) - 1))
         + parseInt(OrDefault(MetricValue(rows[Len(rows)], 2), s_0))

getConversionsByChannel(channelResponse, eventsResponse, searchResult) ==
  LET rows == RowsOf(channelResponse)
      eventRows == RowsOf(eventsResponse)
  IN  [formSubmissions |-> TotalForms(eventRows),
       phoneCalls |-> TotalPhones(eventRows),
       totalConversions |-> TotalConversions(rows),
       byChannel |->
         [i \in 1..Len(rows) |->
            ChannelMetricsOf(rows[i], eventRows, searchResult)]]

(***************************************************************************)
(* getAggregatedMetrics and comparePeriods.                                *)
(***************************************************************************)
\* response.rows?.[0]?.metricValues || []
FirstRowMetricValues(response) ==
  IF RowsOf(response) = <<>> THEN <<>> ELSE RowsOf(response)[1].metricValues

\* metricValues[i]?.value (i counted from 0)
ValueAt(metricValues, i) ==
  IF (i + 1) \in DOMAIN metricValues THEN metricValues[i + 1] ELSE Missing

getAggregatedMetrics(response) ==
  LET metricValues == FirstRowMetricValues(response)
  IN  [users |-> parseInt(OrDefault(ValueAt(metricValues, 0), s_0)),
       sessions |-> parseInt(OrDefault(ValueAt(metricValues, 1), s_0)),
       bounceRate |->
         FracMul(parseFloat(OrDefault(ValueAt(metricValues, 2), s_0)),
                 Num(100)),
       conversions |-> parseInt(OrDefault(ValueAt(metricValues, 3), s_0)),
       pageviews |-> parseInt(OrDefault(ValueAt(metricValues, 4), s_0))]

\* calculateChange with the two periods exchanged
calculateChange_swapped(current, previous) ==
  Once2(current, previous, LAMBDA c, p :
    IF c = Num(0) THEN (IF p.n > 0 THEN Num(100) ELSE Num(0))
    ELSE FracMul(FracDiv(FracSub(p, c), c), Num(100)))

\* calculateChange of comparePeriods, on fractions
calculateChange(current, previous) ==
  Once2(current, previous, LAMBDA c, p :
    IF p = Num(0) THEN (IF c.n > 0 THEN Num(100) ELSE Num(0))
    ELSE FracMul(FracDiv(FracSub(c, p), p), Num(100)))

comparePeriods(response1, response2) ==
  LET metrics1 == getAggregatedMetrics(response1)
      metrics2 == getAggregatedMetrics(response2)
  IN  [period1 |-> [users |-> metrics1.users,
                    sessions |-> metrics1.sessions,
                    pageviews |-> metrics1.pageviews],
       period2 |-> [users |-> metrics2.users,
                    sessions |-> metrics2.sessions,
                    pageviews |-> metrics2.pageviews],
       changes |->
         [users |-> calculateChange(Num(metrics1.users), Num(metrics2.users)),
          sessions |->
            calculateChange(Num(metrics1.sessions), Num(metrics2.sessions)),
          pageviews |->
            calculateChange(Num(metrics1.pageviews),
                            Num(metrics2.pageviews))]]

(***************************************************************************)
(* getWeeklyDashboardMetrics.                                              *)
(***************************************************************************)
s_dash == <<"-">>

\* formatDate with the month and the day exchanged
formatDate_dayFirst(dateStr) ==
  IF Len(dateStr) = 8
    THEN SubSeq(dateStr, 1, 4) \o s_dash \o SubSeq(dateStr, 7, 8)
           \o s_dash \o SubSeq(dateStr, 5, 6)
    ELSE dateStr

\* formatDate: an 8-character value gets its two dashes
formatDate(dateStr) ==
  IF Len(dateStr) = 8
    THEN SubSeq(dateStr, 1, 4) \o s_dash \o SubSeq(dateStr, 5, 6)
           \o s_dash \o SubSeq(dateStr, 7, 8)
    ELSE dateStr

\* searchData.get(date) || { impressions: 0, clicks: 0, ctr: 0 }: the values
\* of the last search row of the date
SearchDataGet(searchResult, date) ==
  LET rows == IF searchResult = Throws THEN <<>> ELSE RowsOf(searchResult)
      hits == {i \in DOMAIN rows :
                 formatDate(OrDefault(DimensionValue(rows[i], 0), <<>>))
                   = date}
      row == rows[CHOOSE i \in hits : \A j \in hits : j <= i]
  IN  IF hits = {}
        THEN [impressions |-> 0, clicks |-> 0, ctr |-> Num(0)]
        ELSE [impressions |-> parseInt(OrDefault(MetricValue(row, 0), s_0)),
              clicks |-> parseInt(OrDefault(MetricValue(row, 1), s_0)),
              ctr |-> FracMul(parseFloat(OrDefault(MetricValue(row, 2), s_0)),
                              Num(100))]

\* the values read from one row of the main response
DayValues(row, searchResult) ==
  LET date == formatDate(OrDefault(DimensionValue(row, 0), <<>>))
      search == SearchDataGet(searchResult, date)
  IN  [date |-> date,
       users |-> parseInt(OrDefault(MetricValue(row, 0), s_0)),
       newUsers |-> parseInt(OrDefault(MetricValue(row, 1), s_0)),
       sessions |-> parseInt(OrDefault(MetricValue(row, 2), s_0)),
       pageviews |-> parseInt(OrDefault(MetricValue(row, 3), s_0)),
       bounceRate |->
         FracMul(parseFloat(OrDefault(MetricValue(row, 4), s_0)), Num(100)),
       engagementRate |->
         FracMul(parseFloat(OrDefault(MetricValue(row, 5), s_0)), Num(100)),
       conversions |-> parseInt(OrDefault(MetricValue(row, 6), s_0)),
       avgSessionDuration |->
         parseFloat(OrDefault(MetricValue(row, 7), s_0)),
       impressions |-> search.impressions,
       clicks |-> search.clicks,
       ctr |-> search.ctr]

\* the WeeklyMetrics object pushed to daily
WeeklyMetricsOf(v) ==
  [date |-> v.date, users |-> v.users, newUsers |-> v.newUsers,
   sessions |-> v.sessions, pageviews |-> v.pageviews,
   bounceRate |-> v.bounceRate, engagementRate |-> v.engagementRate,
   conversions |-> v.conversions, impressions |-> v.impressions,
   clicks |-> v.clicks, ctr |-> v.ctr]

RECURSIVE SumField(_, _)
\* total += v[field] over the rows, for a count
SumField(values, field) ==
  IF values = <<>> THEN 0
  ELSE SumField(SubSeq(values, 1, Len(values) - 1), field)
         + values[Len(values)][field]

RECURSIVE FracSumField(_, _)
\* sum += v[field] over the rows, for a rate
FracSumField(values, field) ==
  IF values = <<>> THEN Num(0)
  ELSE FracAdd(FracSumField(SubSeq(values, 1, Len(values) - 1), field),
               values[Len(values)][field])

\* the sum in place of the mean
MeanOrZero_undivided(sum, rowCount) ==
  IF rowCount > 0 THEN sum ELSE Num(0)

\* rowCount > 0 ? sum / rowCount : 0
MeanOrZero(sum, rowCount) ==
  IF rowCount > 0 THEN FracDiv(sum, Num(rowCount)) ELSE Num(0)

\* the totals and the daily list built from the values of the rows
WeeklyResult(values) ==
  LET rowCount == Len(values)
      totalImpressions == SumField(values, "impressions")
      totalClicks == SumField(values, "clicks")
  IN  [totals |->
         [users |-> SumField(values, "users"),
          newUsers |-> SumField(values, "newUsers"),
          sessions |-> SumField(values, "sessions"),
          pageviews |-> SumField(values, "pageviews"),
          bounceRate |->
            MeanOrZero(FracSumField(values, "bounceRate"), rowCount),
          engagementRate |->
            MeanOrZero(FracSumField(values, "engagementRate"), rowCount),
          conversions |-> SumField(values, "conversions"),
          impressions |-> totalImpressions,
          clicks |-> totalClicks,
          ctr |-> IF totalImpressions > 0
                    THEN FracMul(FracDiv(Num(totalClicks),
                                         Num(totalImpressions)), Num(100))
                    ELSE Num(0),
          avgSessionDuration |->
            MeanOrZero(FracSumField(values, "avgSessionDuration"),
                       rowCount)],
       daily |-> [i \in 1..Len(values) |-> WeeklyMetricsOf(values[i])]]

getWeeklyDashboardMetrics(mainResponse, searchResult) ==
  LET rows == RowsOf(mainResponse)
  IN  Once([i \in 1..Len(rows) |-> DayValues(rows[i], searchResult)],
           WeeklyResult)

(***************************************************************************)
(* compareWithLastYear.                                                    *)
(***************************************************************************)
\* the number written by two digit characters
TwoDigits(s, i) == 10 * DigitValue(s[i]) + DigitValue(s[i + 1])

\* whether new Date(s) is a valid date, for a string s that is written
\* YYYY-MM-DD (month 1..12, day 1..31) or is a relative token of the backend
\* such as "7daysAgo", which gives an Invalid Date
DateParses(s) ==
  /\ Len(s) = 10
  /\ \A i \in {1, 2, 3, 4, 6, 7, 9, 10} : IsDigit(s[i])
  /\ s[5] = "-" /\ s[8] = "-"
  /\ TwoDigits(s, 6) \in 1..12
  /\ TwoDigits(s, 9) \in 1..31

\* getSameWeekLastYear throws a RangeError from toISOString when a boundary
\* is an Invalid Date
SameWeekLastYearThrows(dateRange) ==
  ~DateParses(dateRange.startDate) \/ ~DateParses(dateRange.endDate)

RangeError == [exception |-> "RangeError"]

\* calculateChange with 0 for every zero baseline
calculateChangeLastYear_zeroDefault(curr, prev) ==
  Once2(curr, prev, LAMBDA c, p :
    IF p = Num(0) THEN Num(0)
    ELSE FracMul(FracDiv(FracSub(c, p), p), Num(100)))

\* calculateChange of compareWithLastYear, on fractions
calculateChangeLastYear(curr, prev) ==
  Once2(curr, prev, LAMBDA c, p :
    IF p = Num(0) THEN (IF c.n > 0 THEN Num(100) ELSE Num(0))
    ELSE FracMul(FracDiv(FracSub(c, p), p), Num(100)))

\* the rate of the weekly path taken over the sessions of the period
WeeklyClickToLead_bySessions(conversions, data) ==
  IF data.totals.sessions > 0
    THEN FracMul(FracDiv(Num(conversions.totalConversions),
                         Num(data.totals.sessions)), Num(100))
    ELSE Num(0)

\* totals.clicks > 0 ? (totalConversions / totals.clicks) * 100 : 0
WeeklyClickToLead(conversions, data) ==
  IF data.totals.clicks > 0
    THEN FracMul(FracDiv(Num(conversions.totalConversions),
                         Num(data.totals.clicks)), Num(100))
    ELSE Num(0)

\* { ...data.totals, formSubmissions, phoneCalls, clickToLeadRate }
PeriodTotals(data, conversions, clickToLead) ==
  [users |-> data.totals.users,
   newUsers |-> data.totals.newUsers,
   sessions |-> data.totals.sessions,
   pageviews |-> data.totals.pageviews,
   bounceRate |-> data.totals.bounceRate,
   engagementRate |-> data.totals.engagementRate,
   conversions |-> data.totals.conversions,
   impressions |-> data.totals.impressions,
   clicks |-> data.totals.clicks,
   ctr |-> data.totals.ctr,
   avgSessionDuration |-> data.totals.avgSessionDuration,
   formSubmissions |-> conversions.formSubmissions,
   phoneCalls |-> conversions.phoneCalls,
   clickToLeadRate |-> clickToLead]

\* the result of compareWithLastYear from the four aggregations
LastYearComparison(currentData, lastYearData, currentConversions, lastYearConversions) ==
  LET currentClickToLead == WeeklyClickToLead(currentConversions, currentData)
      lastYearClickToLead ==
        WeeklyClickToLead(lastYearConversions, lastYearData)
      c == currentData.totals
      l == lastYearData.totals
  IN  [current |->
         PeriodTotals(currentData, currentConversions, currentClickToLead),
       lastYear |->
         PeriodTotals(lastYearData, lastYearConversions, lastYearClickToLead),
       changes |->
         [users |-> calculateChangeLastYear(Num(c.users), Num(l.users)),
          newUsers |->
            calculateChangeLastYear(Num(c.newUsers), Num(l.newUsers)),
          sessions |->
            calculateChangeLastYear(Num(c.sessions), Num(l.sessions)),
          pageviews |->
            calculateChangeLastYear(Num(c.pageviews), Num(l.pageviews)),
          conversions |->
            calculateChangeLastYear(Num(c.conversions), Num(l.conversions)),
          impressions |->
            calculateChangeLastYear(Num(c.impressions), Num(l.impressions)),
          clicks |-> calculateChangeLastYear(Num(c.clicks), Num(l.clicks)),
          ctr |-> calculateChangeLastYear(c.ctr, l.ctr),
          formSubmissions |->
            calculateChangeLastYear(Num(currentConversions.formSubmissions),
                                    Num(lastYearConversions.formSubmissions)),
          phoneCalls |->
            calculateChangeLastYear(Num(currentConversions.phoneCalls),
                                    Num(lastYearConversions.phoneCalls)),
          clickToLeadRate |->
            calculateChangeLastYear(currentClickToLead,
                                    lastYearClickToLead)]]

\* backend: the results of the queries of the current period and of the
\* period one year before
compareWithLastYear(currentPeriod, backend) ==
  IF SameWeekLastYearThrows(currentPeriod) THEN RangeError
  ELSE
    Once2(getWeeklyDashboardMetrics(backend.current.mainResponse,
                                    backend.current.searchResult),
          getWeeklyDashboardMetrics(backend.lastYear.mainResponse,
                                    backend.lastYear.searchResult),
          LAMBDA currentData, lastYearData :
      Once2(getConversionsByChannel(backend.current.channelResponse,
                                    backend.current.eventsResponse,
                                    backend.current.channelSearchResult),
            getConversionsByChannel(backend.lastYear.channelResponse,
                                    backend.lastYear.eventsResponse,
                                    backend.lastYear.channelSearchResult),
            LAMBDA currentConversions, lastYearConversions :
              LastYearComparison(currentData, lastYearData,
                                 currentConversions, lastYearConversions)))

(***************************************************************************)
(* Inputs of the categorizer: sample strings and every string of length    *)
(* at most MaxSourceLen over SourceAlphabet.                               *)
(***************************************************************************)
SampleSources ==
  { <<"g","o","o","g","l","e">>,
     <<"G","o","o","g","l","e">>,
     <<"b","i","n","g">>,
     <<"y","a","h","o","o">>,
     <<"d","u","c","k","d","u","c","k","g","o">>,
     <<"b","a","i","d","u">>,
     <<"c","h","a","t","g","p","t",".","c","o","m">>,
     <<"y","e","l","p",".","c","o","m">>,
     <<"(","d","i","r","e","c","t",")">>,
     <<"u","n","k","n","o","w","n","s","i","t","e",".","x","y","z">>,
     <<"f","a","c","e","b","o","o","k">>,
     <<"t",".","c","o">>,
     <<"n","e","w","s","l","e","t","t","e","r">>,
     <<>>,
     <<"l",".","i","n","s","t","a","g","r","a","m",".","c","o","m">>,
     <<"y","o","u","t","u","b","e",".","c","o","m">>,
     <<"(","n","o","t"," ","s","e","t",")">>,
     <<"e","x","a","m","p","l","e",".","o","r","g">> }

SampleMediums ==
  { <<"o","r","g","a","n","i","c">>,
     <<"O","r","g","a","n","i","c">>,
     <<"c","p","c">>,
     <<"p","p","c">>,
     <<"p","a","i","d">>,
     <<"p","a","i","d","_","s","o","c","i","a","l">>,
     <<"s","o","c","i","a","l">>,
     <<"r","e","f","e","r","r","a","l">>,
     <<"(","n","o","n","e",")">>,
     <<"d","i","r","e","c","t">>,
     <<"e","m","a","i","l">>,
     <<>>,
     <<"(","n","o","t"," ","s","e","t",")">> }

SourceAlphabet == {"P", "o", "e", "g", "x"}

GeneratedSources ==
  UNION {[1..n -> SourceAlphabet] : n \in 0..MaxSourceLen}

Sources == SampleSources \cup GeneratedSources

Mediums == SampleMediums

NoOutput == [none |-> TRUE]

\* state holds the locals of an operation that runs in several steps and
\* the state of a mounted component; the other operations have none
NoState == [none |-> TRUE]

(***************************************************************************)
(* categorizeSource as an operation: the pair is drawn, then categorized.  *)
(***************************************************************************)
InitCategorize ==
  /\ op = "categorizeSource"
  /\ pc = "call"
  /\ input \in [source : Sources, medium : Mediums]
  /\ output = NoOutput
  /\ state = NoState

CategorizeSource ==
  /\ op = "categorizeSource"
  /\ pc = "call"
  /\ output' = categorizeSource(input.source, input.medium)
  /\ pc' = "return"
  /\ UNCHANGED <<op, input, state>>

SpecCategorize == InitCategorize /\ [][CategorizeSource]_vars

(***************************************************************************)
(* Inputs of getDetailedChannelBreakdown: the two responses of the         *)
(* backend.  Metric values are decimal strings, as the backend sends them. *)
(***************************************************************************)
\* most rows in the source/medium response
MaxSourceRows == 3

\* most rows in the event response
MaxEventRows == 2

SampleSourceRows ==
  { [dimensionValues |-> <<<<"g","o","o","g","l","e">>, <<"o","r","g","a","n","i","c">>>>,
       metricValues |-> <<<<"1","0">>, <<"1","2">>, <<"3">>>>],
    [dimensionValues |-> <<<<"y","a","h","o","o">>, <<"o","r","g","a","n","i","c">>>>,
       metricValues |-> <<<<"4">>, <<"5">>, <<"1">>>>],
    [dimensionValues |-> <<<<"y","a","h","o","o">>, <<"o","r","g","a","n","i","c">>>>,
       metricValues |-> <<<<"0">>, <<"0">>, <<"0">>>>],
    [dimensionValues |-> <<<<"n","e","w","s","l","e","t","t","e","r">>, <<"e","m","a","i","l">>>>,
       metricValues |-> <<<<"6">>, <<"1","2">>, <<"7">>>>],
    [dimensionValues |-> <<Missing, Missing>>,
       metricValues |-> <<>>] }

SampleEventRows ==
  { [dimensionValues |-> <<<<"y","a","h","o","o">>, <<"o","r","g","a","n","i","c">>, <<"f","o","r","m","_","s","u","b","m","i","t">>>>,
       metricValues |-> <<<<"2">>>>],
    [dimensionValues |-> <<<<"y","a","h","o","o">>, <<"o","r","g","a","n","i","c">>, <<"p","h","o","n","e","_","c","l","i","c","k">>>>,
       metricValues |-> <<<<"3">>>>],
    [dimensionValues |-> <<<<"y","a","h","o","o">>, <<"o","r","g","a","n","i","c">>, <<"P","h","o","n","e","_","F","o","r","m","_","S","u","b","m","i","t">>>>,
       metricValues |-> <<<<"4">>>>],
    [dimensionValues |-> <<<<"n","e","w","s","l","e","t","t","e","r">>, <<"e","m","a","i","l">>, <<"p","a","g","e","_","v","i","e","w">>>>,
       metricValues |-> <<<<"7">>>>] }

\* a response: without rows, or with a sequence of at most n rows
Responses(RowSet, n) ==
  {[rowCount |-> 0]} \cup [rows : UNION {[1..k -> RowSet] : k \in 0..n}]

InitBreakdown ==
  /\ op = "getDetailedChannelBreakdown"
  /\ pc = "call"
  /\ input \in
       [sourceResponse : Responses(SampleSourceRows, MaxSourceRows),
        eventsResponse : Responses(SampleEventRows, MaxEventRows)]
  /\ output = NoOutput
  /\ state = NoState

GetDetailedChannelBreakdown ==
  /\ op = "getDetailedChannelBreakdown"
  /\ pc = "call"
  /\ output' = getDetailedChannelBreakdown(input.sourceResponse,
                                           input.eventsResponse)
  /\ pc' = "return"
  /\ UNCHANGED <<op, input, state>>

SpecBreakdown == InitBreakdown /\ [][GetDetailedChannelBreakdown]_vars

(***************************************************************************)
(* Inputs of getConversionsByChannel: the responses to its three queries.  *)
(***************************************************************************)
\* most rows in the channel response
MaxChannelRows == 2

\* most rows in the channel event response
MaxChannelEventRows == 2

\* most rows in the search-console response
MaxSearchRows == 1

SampleChannelRows ==
  { [dimensionValues |-> <<<<"D","i","r","e","c","t">>>>,
       metricValues |-> <<<<"5">>, <<"1","0">>, <<"2">>>>],
    [dimensionValues |-> <<<<"O","r","g","a","n","i","c">>>>,
       metricValues |-> <<<<"8">>, <<"2","0">>, <<"5">>>>],
    [dimensionValues |-> <<>>,
       metricValues |-> <<>>] }

SampleChannelEventRows ==
  { [dimensionValues |-> <<<<"O","r","g","a","n","i","c">>, <<"P","h","o","n","e","_","F","o","r","m","_","S","u","b","m","i","t">>>>,
       metricValues |-> <<<<"4">>>>],
    [dimensionValues |-> <<<<"D","i","r","e","c","t">>, <<"p","h","o","n","e","_","c","l","i","c","k">>>>,
       metricValues |-> <<<<"3">>>>],
    [dimensionValues |-> <<<<"E","m","a","i","l">>, <<"p","a","g","e","_","v","i","e","w">>>>,
       metricValues |-> <<<<"7">>>>],
    [dimensionValues |-> <<<<"P","a","i","d">>, <<"f","o","r","m","_","s","u","b","m","i","t">>>>,
       metricValues |-> <<<<"1">>>>] }

SampleChannelSearchRows ==
  { [dimensionValues |-> <<<<"O","r","g","a","n","i","c">>>>,
       metricValues |-> <<<<"1","5">>>>],
    [dimensionValues |-> <<<<"D","i","r","e","c","t">>>>,
       metricValues |-> <<<<"0">>>>] }

\* outcome of the optional query: it throws, or it returns a response
SearchResults(RowSet, n) == {Throws} \cup Responses(RowSet, n)

ConversionsInputs ==
  [channelResponse : Responses(SampleChannelRows, MaxChannelRows),
   eventsResponse : Responses(SampleChannelEventRows, MaxChannelEventRows),
   searchResult : SearchResults(SampleChannelSearchRows, MaxSearchRows)]

InitConversions ==
  /\ op = "getConversionsByChannel"
  /\ pc = "call"
  /\ input \in ConversionsInputs
  /\ output = NoOutput
  /\ state = NoState

GetConversionsByChannel ==
  /\ op = "getConversionsByChannel"
  /\ pc = "call"
  /\ output' = getConversionsByChannel(input.channelResponse,
                                       input.eventsResponse,
                                       input.searchResult)
  /\ pc' = "return"
  /\ UNCHANGED <<op, input, state>>

SpecConversions == InitConversions /\ [][GetConversionsByChannel]_vars

\* the two operations that count form submissions and phone calls
SpecLeads ==
  /\ InitBreakdown \/ InitConversions
  /\ [][GetDetailedChannelBreakdown \/ GetConversionsByChannel]_vars

(***************************************************************************)
(* Inputs of comparePeriods: the responses to the aggregate query for the  *)
(* two periods (metric values: activeUsers, sessions, bounceRate,          *)
(* conversions, screenPageViews).                                          *)
(***************************************************************************)
SampleUsers == {<<"0">>, <<"5">>, <<"5","0">>, <<"1","0","0">>}

SampleSessions == {<<"0">>, <<"7">>}

SamplePageviews == {<<"0">>, <<"9">>, <<"1","2">>}

AggregateResponses ==
  {[rowCount |-> 0], [rows |-> <<>>]}
    \cup {[rows |-> <<[dimensionValues |-> <<>>,
                       metricValues |-> <<u, se, <<"0",".","5">>, <<"1">>, pv>>]>>] :
            u \in SampleUsers, se \in SampleSessions, pv \in SamplePageviews}

InitComparePeriods ==
  /\ op = "comparePeriods"
  /\ pc = "call"
  /\ input \in [period1 : AggregateResponses, period2 : AggregateResponses]
  /\ output = NoOutput
  /\ state = NoState

ComparePeriods ==
  /\ op = "comparePeriods"
  /\ pc = "call"
  /\ output' = comparePeriods(input.period1, input.period2)
  /\ pc' = "return"
  /\ UNCHANGED <<op, input, state>>

SpecComparePeriods == InitComparePeriods /\ [][ComparePeriods]_vars

(***************************************************************************)
(* Inputs of compareWithLastYear: the period, and for the current and the  *)
(* last-year period the results of the five queries the two aggregations   *)
(* send.                                                                   *)
(***************************************************************************)
DayRow1 ==
  [dimensionValues |-> <<<<"2","0","2","4","0","1","0","8">>>>,
     metricValues |->
       <<<<"1","0">>, <<"4">>, <<"1","2">>, <<"3","0">>, <<"0",".","5">>, <<"0",".","2","5">>, <<"3">>, <<"6","0",".","5">>>>]

DayRow2 ==
  [dimensionValues |-> <<<<"2","0","2","4","0","1","0","9">>>>,
     metricValues |->
       <<<<"5">>, <<"0">>, <<"6">>, <<"9">>, <<"0",".","2","5">>, <<"0",".","7","5">>, <<"0">>, <<"3","0">>>>]

SearchRow1 ==
  [dimensionValues |-> <<<<"2","0","2","4","0","1","0","8">>>>,
     metricValues |->
       <<<<"1","0","0">>, <<"1","0">>, <<"0",".","1">>>>]

SearchRow2 ==
  [dimensionValues |-> <<<<"2","0","2","4","0","1","0","9">>>>,
     metricValues |->
       <<<<"5","0">>, <<"2","0">>, <<"0",".","4">>>>]

ChannelRow1 ==
  [dimensionValues |-> <<<<"D","i","r","e","c","t">>>>,
     metricValues |->
       <<<<"5">>, <<"1","0">>, <<"2">>>>]

ChannelRow2 ==
  [dimensionValues |-> <<<<"O","r","g","a","n","i","c">>>>,
     metricValues |->
       <<<<"8">>, <<"2","0">>, <<"5">>>>]

ChannelEventRow1 ==
  [dimensionValues |-> <<<<"D","i","r","e","c","t">>, <<"f","o","r","m","_","s","u","b","m","i","t">>>>,
     metricValues |->
       <<<<"2">>>>]

ChannelEventRow2 ==
  [dimensionValues |-> <<<<"D","i","r","e","c","t">>, <<"p","h","o","n","e","_","c","l","i","c","k">>>>,
     metricValues |->
       <<<<"3">>>>]

\* results of the two queries of getWeeklyDashboardMetrics
SampleWeeklyBackend ==
  { [mainResponse |-> [rowCount |-> 0], searchResult |-> Throws],
    [mainResponse |-> [rows |-> <<DayRow1>>], searchResult |-> Throws],
    [mainResponse |-> [rows |-> <<DayRow1>>],
     searchResult |-> [rows |-> <<SearchRow1>>]],
    [mainResponse |-> [rows |-> <<DayRow1, DayRow2>>],
     searchResult |-> [rows |-> <<SearchRow1, SearchRow2>>]] }

\* results of the three queries of getConversionsByChannel
SampleConversionsBackend ==
  { [channelResponse |-> [rowCount |-> 0],
     eventsResponse |-> [rowCount |-> 0],
     channelSearchResult |-> Throws],
    [channelResponse |-> [rows |-> <<ChannelRow1>>],
     eventsResponse |-> [rows |-> <<ChannelEventRow1>>],
     channelSearchResult |-> Throws],
    [channelResponse |-> [rows |-> <<ChannelRow1, ChannelRow2>>],
     eventsResponse |-> [rows |-> <<ChannelEventRow1, ChannelEventRow2>>],
     channelSearchResult |-> [rowCount |-> 0]] }

PeriodBackend ==
  {[mainResponse |-> w.mainResponse,
    searchResult |-> w.searchResult,
    channelResponse |-> c.channelResponse,
    eventsResponse |-> c.eventsResponse,
    channelSearchResult |-> c.channelSearchResult] :
      w \in SampleWeeklyBackend, c \in SampleConversionsBackend}

SamplePeriods ==
  { [startDate |-> <<"2","0","2","4","-","0","1","-","0","8">>,
     endDate |-> <<"2","0","2","4","-","0","1","-","1","4">>],
    [startDate |-> <<"7","d","a","y","s","A","g","o">>,
     endDate |-> <<"y","e","s","t","e","r","d","a","y">>] }

InitCompareWithLastYear ==
  /\ op = "compareWithLastYear"
  /\ pc = "call"
  /\ input \in [currentPeriod : SamplePeriods,
                backend : [current : PeriodBackend, lastYear : PeriodBackend]]
  /\ output = NoOutput
  /\ state = NoState

CompareWithLastYear ==
  /\ op = "compareWithLastYear"
  /\ pc = "call"
  /\ output' = compareWithLastYear(input.currentPeriod, input.backend)
  /\ pc' = "return"
  /\ UNCHANGED <<op, input, state>>

\* the two period comparisons
SpecCompare ==
  /\ InitComparePeriods \/ InitCompareWithLastYear
  /\ [][ComparePeriods \/ CompareWithLastYear]_vars

(***************************************************************************)
(* detectAnomalies.  JavaScript numbers are binary64 values; the           *)
(* arithmetic of the anomaly detector is modelled with the rounding of     *)
(* IEEE 754 (to nearest, ties to even) after every operation, with a       *)
(* significand of SignificandBits bits in place of 53 and an unbounded     *)
(* exponent.  A number is a fraction [n, d] in lowest terms; d = 0 is NaN. *)
(***************************************************************************)
SignificandBits == 7

RECURSIVE Pow2(_)
Pow2(k) == IF k = 0 THEN 1 ELSE 2 * Pow2(k - 1)

NaNNumber == [n |-> 0, d |-> 0]

IsNaNNumber(x) == x.d = 0

\* x < y on fractions
FracLess(x, y) == x.n * y.d < y.n * x.d

FracAbs(x) == [n |-> Abs(x.n), d |-> x.d]

RECURSIVE ScaleInto(_, _, _, _, _, _)
\* a positive fraction x brought into [lo, hi) by steps of the factor f,
\* hi = lo * f: [x |-> the scaled value, m |-> the product of a factor g for
\* each step down and 1 / g for each step up]
ScaleInto(x, m, lo, hi, f, g) ==
  IF x.n \div x.d < lo
    THEN ScaleInto(FracMul(x, Num(f)), FracDiv(m, Num(g)), lo, hi, f, g)
  ELSE IF x.n \div x.d >= hi
    THEN ScaleInto(FracDiv(x, Num(f)), FracMul(m, Num(g)), lo, hi, f, g)
  ELSE [x |-> x, m |-> m]

\* the integer nearest to the fraction x >= 0, the even one of two at a tie
NearestEven(x) ==
  LET q == x.n \div x.d
      r == x.n % x.d
  IN  IF 2 * r > x.d \/ (2 * r = x.d /\ q % 2 = 1) THEN q + 1 ELSE q

\* the value of the number format nearest to the exact fraction x
RoundNumber(x) ==
  Once(x, LAMBDA a :
    IF IsNaNNumber(a) \/ a.n = 0 THEN a
    ELSE LET s == ScaleInto(FracAbs(a), Num(1), Pow2(SignificandBits - 1),
                            Pow2(SignificandBits), 2, 2)
             q == NearestEven(s.x)
         IN  FracMul(Num(IF a.n < 0 THEN -q ELSE q), s.m))

\* a + b, a - b, a * b, a / b of two numbers
NumberAdd(x, y) ==
  IF IsNaNNumber(x) \/ IsNaNNumber(y) THEN NaNNumber
  ELSE RoundNumber(FracAdd(x, y))

NumberSub(x, y) ==
  IF IsNaNNumber(x) \/ IsNaNNumber(y) THEN NaNNumber
  ELSE RoundNumber(FracSub(x, y))

NumberMul(x, y) ==
  IF IsNaNNumber(x) \/ IsNaNNumber(y) THEN NaNNumber
  ELSE RoundNumber(FracMul(x, y))

\* the divisions of the detector have a divisor 0 only as 0 / 0
NumberDiv(x, y) ==
  IF IsNaNNumber(x) \/ IsNaNNumber(y) \/ y.n = 0 THEN NaNNumber
  ELSE RoundNumber(FracDiv(x, y))

\* x > y of two numbers: false when either is NaN
NumberGreater(x, y) ==
  /\ ~IsNaNNumber(x)
  /\ ~IsNaNNumber(y)
  /\ FracLess(y, x)

\* Math.sqrt(x) for x >= 0 or NaN: the number nearest to the square root
MathSqrt(x) ==
  Once(x, LAMBDA a :
    IF IsNaNNumber(a) \/ a.n = 0 THEN a
    ELSE LET s == ScaleInto(a, Num(1), Pow2(2 * SignificandBits - 2),
                            Pow2(2 * SignificandBits), 4, 2)
             q == CHOOSE k \in Pow2(SignificandBits - 1)..(Pow2(SignificandBits) - 1) :
                    /\ k * k * s.x.d <= s.x.n
                    /\ (k + 1) * (k + 1) * s.x.d > s.x.n
             up == \/ 4 * s.x.n > (2 * q + 1) * (2 * q + 1) * s.x.d
                   \/ (4 * s.x.n = (2 * q + 1) * (2 * q + 1) * s.x.d /\ q % 2 = 1)
         IN  FracMul(Num(IF up THEN q + 1 ELSE q), s.m))

\* parseFloat(s) as a number: the value nearest to the decimal written by s
parseFloatNumber(s) ==
  IF DigitPrefixLen(s) = 0
       /\ ~(Len(s) >= 2 /\ s[1] = "." /\ IsDigit(s[2]))
    THEN NaNNumber
    ELSE RoundNumber(parseFloat(s))

\* values: one { date, value } for each row of the response
AnomalyValues(response) ==
  LET rows == RowsOf(response)
  IN  [i \in DOMAIN rows |->
         [date |-> formatDate(OrDefault(DimensionValue(rows[i], 0), <<>>)),
          value |-> parseFloatNumber(OrDefault(MetricValue(rows[i], 0), s_0))]]

RECURSIVE NumberSum(_, _)
\* numValues.reduce((a, b) => a + b, 0), from the left
NumberSum(numValues, k) ==
  IF k = 0 THEN Num(0)
  ELSE NumberAdd(NumberSum(numValues, k - 1), numValues[k])

\* numValues.reduce((a, b) => a + b, 0) / numValues.length
SeriesMean(numValues) ==
  NumberDiv(NumberSum(numValues, Len(numValues)), Num(Len(numValues)))

RECURSIVE SquaresSum(_, _, _)
\* numValues.reduce((sum, val) => sum + Math.pow(val - mean, 2), 0)
SquaresSum(numValues, mean, k) ==
  IF k = 0 THEN Num(0)
  ELSE Once2(SquaresSum(numValues, mean, k - 1),
             NumberSub(numValues[k], mean),
             LAMBDA sum, diff : NumberAdd(sum, NumberMul(diff, diff)))

\* Math.sqrt(... / numValues.length)
SeriesStdDev(numValues, mean) ==
  MathSqrt(NumberDiv(SquaresSum(numValues, mean, Len(numValues)),
                     Num(Len(numValues))))

\* stdDev > 0 ? (v.value - mean) / stdDev : 0
Deviation(value, mean, stdDev) ==
  IF NumberGreater(stdDev, Num(0))
    THEN NumberDiv(NumberSub(value, mean), stdDev)
    ELSE Num(0)

\* Math.abs(v.deviation) > threshold
IsAnomalous_notStrict(deviation, threshold) ==
  /\ ~IsNaNNumber(deviation)
  /\ ~IsNaNNumber(threshold)
  /\ ~FracLess(FracAbs(deviation), threshold)

IsAnomalous(deviation, threshold) ==
  NumberGreater(FracAbs(deviation), threshold)

\* values.map(...).filter(...): the mapped entries the filter keeps
AnomaliesOf_reversed(values, mean, stdDev, threshold) ==
  LET mapped == [i \in DOMAIN values |->
                   [date |-> values[i].date,
                    value |-> values[i].value,
                    deviation |-> Deviation(values[i].value, mean, stdDev)]]
      kept == SelectSeq(mapped,
                        LAMBDA v : IsAnomalous(v.deviation, threshold))
  IN  [i \in DOMAIN kept |-> kept[Len(kept) + 1 - i]]

AnomaliesOf(values, mean, stdDev, threshold) ==
  LET mapped == [i \in DOMAIN values |->
                   [date |-> values[i].date,
                    value |-> values[i].value,
                    deviation |-> Deviation(values[i].value, mean, stdDev)]]
  IN  SelectSeq(mapped, LAMBDA v : IsAnomalous(v.deviation, threshold))

\* response: the result of the query of the daily series of the metric
detectAnomalies(response, threshold) ==
  Once(AnomalyValues(response), LAMBDA values :
    Once([i \in DOMAIN values |-> values[i].value], LAMBDA numValues :
      Once(SeriesMean(numValues), LAMBDA mean :
        Once(SeriesStdDev(numValues, mean), LAMBDA stdDev :
          Once(AnomaliesOf(values, mean, stdDev, threshold),
               LAMBDA anomalies :
                 [hasAnomaly |-> Len(anomalies) > 0,
                  anomalies |-> anomalies])))))

(***************************************************************************)
(* The calls of detectAnomalies: daily series of at most MaxSeriesLen      *)
(* values, the two series of the documentation, and thresholds on both     *)
(* sides of the deviations that occur (a threshold that does not parse is  *)
(* NaN).  The rows of a response are ordered by date.                      *)
(***************************************************************************)
MaxSeriesLen == 3

s_5 == <<"5">>
s_10 == <<"1","0">>
s_50 == <<"5","0">>
s_0_1 == <<"0",".","1">>

SampleSeriesValues == {s_0, <<"2">>, s_10, s_0_1, Missing}

SeriesDates ==
  <<<<"2","0","2","4","0","1","0","1">>, <<"2","0","2","4","0","1","0","2">>,
    <<"2","0","2","4","0","1","0","3">>, <<"2","0","2","4","0","1","0","4">>,
    <<"2","0","2","4","0","1","0","5">>, <<"2","0","2","4","0","1","0","6">>>>

\* the response whose i-th row carries the i-th date and the i-th value
SeriesResponse(series) ==
  [rows |-> [i \in DOMAIN series |->
               [dimensionValues |-> <<SeriesDates[i]>>,
                metricValues |->
                  IF series[i] = Missing THEN <<>> ELSE <<series[i]>>]]]

SpikeSeries == <<s_10, s_10, s_10, s_10, s_10, s_50>>

ConstantSeries == <<s_5, s_5, s_5, s_5, s_5>>

SeriesResponses ==
  {[rowCount |-> 0], SeriesResponse(SpikeSeries),
   SeriesResponse(ConstantSeries)}
    \cup UNION {{SeriesResponse(series) :
                   series \in [1..n -> SampleSeriesValues]} :
                n \in 0..MaxSeriesLen}

SampleThresholds ==
  {Num(-1), Num(0), Frac(1, 2), Num(1), Num(2), NaNNumber}

InitDetectAnomalies ==
  /\ op = "detectAnomalies"
  /\ pc = "call"
  /\ input \in [response : SeriesResponses, threshold : SampleThresholds]
  /\ output = NoOutput
  /\ state = NoState

DetectAnomalies ==
  /\ op = "detectAnomalies"
  /\ pc = "call"
  /\ output' = detectAnomalies(input.response, input.threshold)
  /\ pc' = "return"
  /\ UNCHANGED <<op, input, state>>

SpecAnomalies == InitDetectAnomalies /\ [][DetectAnomalies]_vars

(***************************************************************************)
(* The calls of formatDate: the values of the date dimension in their      *)
(* 8-digit form, the same dates already written with dashes, and values    *)
(* that are no dates.                                                      *)
(***************************************************************************)
\* the two decimal digits of k, for k in 0..99
TwoDigitString(k) == <<Digits[(k \div 10) + 1], Digits[(k % 10) + 1]>>

SampleYearStrings == {<<"2","0","2","3">>, <<"2","0","2","4">>}

SampleDaysOfMonth == {1, 15, 28, 31}

CompactDates ==
  {y \o TwoDigitString(m) \o TwoDigitString(d) :
     y \in SampleYearStrings, m \in 1..12, d \in SampleDaysOfMonth}

DashedDates ==
  {y \o s_dash \o TwoDigitString(m) \o s_dash \o TwoDigitString(d) :
     y \in SampleYearStrings, m \in 1..12, d \in SampleDaysOfMonth}

s_not_set == <<"(","n","o","t"," ","s","e","t",")">>

SampleDateStrings == CompactDates \cup DashedDates \cup {<<>>, s_not_set}

InitFormatDate ==
  /\ op = "formatDate"
  /\ pc = "call"
  /\ input \in [dateStr : SampleDateStrings]
  /\ output = NoOutput
  /\ state = NoState

FormatDate ==
  /\ op = "formatDate"
  /\ pc = "call"
  /\ output' = formatDate(input.dateStr)
  /\ pc' = "return"
  /\ UNCHANGED <<op, input, state>>

SpecFormatDate == InitFormatDate /\ [][FormatDate]_vars

(***************************************************************************)
(* The calls of getWeeklyDashboardMetrics: a main response of at most      *)
(* MaxDayRows daily rows and, for the optional search query, a failure or  *)
(* a response of at most MaxDayRows rows.                                  *)
(***************************************************************************)
MaxDayRows == 2

SampleDayRows ==
  {DayRow1, DayRow2, [dimensionValues |-> <<>>, metricValues |-> <<>>]}

SampleSearchRows == {SearchRow1, SearchRow2}

WeeklyInputs ==
  [mainResponse : Responses(SampleDayRows, MaxDayRows),
   searchResult : SearchResults(SampleSearchRows, MaxDayRows)]

InitWeekly ==
  /\ op = "getWeeklyDashboardMetrics"
  /\ pc = "call"
  /\ input \in WeeklyInputs
  /\ output = NoOutput
  /\ state = NoState

GetWeeklyDashboardMetrics ==
  /\ op = "getWeeklyDashboardMetrics"
  /\ pc = "call"
  /\ output' = getWeeklyDashboardMetrics(input.mainResponse,
                                         input.searchResult)
  /\ pc' = "return"
  /\ UNCHANGED <<op, input, state>>

SpecWeekly == InitWeekly /\ [][GetWeeklyDashboardMetrics]_vars

\* the two operations that issue the optional search query
SpecOptionalSearch ==
  /\ InitWeekly \/ InitConversions
  /\ [][GetWeeklyDashboardMetrics \/ GetConversionsByChannel]_vars

(***************************************************************************)
(* Dates.  A Date is an instant, counted in whole hours since              *)
(* 1970-01-01T00:00Z; its local fields (getDay, getDate, getFullYear and   *)
(* their setters) are those of the time zone of the server, toISOString    *)
(* is UTC.  The zone is part of the environment of a call.                 *)
(***************************************************************************)
\* the number of days from 1970-01-01 to day d of month m of year y of the
\* proleptic Gregorian calendar; d outside the month counts on (MakeDay)
DaysFromCivil(y, m, d) ==
  LET yy == IF m <= 2 THEN y - 1 ELSE y
      era == yy \div 400
      yoe == yy - era * 400
      mp == IF m > 2 THEN m - 3 ELSE m + 9
      doy == ((153 * mp + 2) \div 5) + d - 1
      doe == yoe * 365 + (yoe \div 4) - (yoe \div 100) + doy
  IN  era * 146097 + doe - 719468

\* the year, month and day of the day that is z days after 1970-01-01
CivilFromDays(z) ==
  LET zz == z + 719468
      era == zz \div 146097
      doe == zz - era * 146097
      yoe == (doe - (doe \div 1460) + (doe \div 36524) - (doe \div 146096))
               \div 365
      doy == doe - (365 * yoe + (yoe \div 4) - (yoe \div 100))
      mp == (5 * doy + 2) \div 153
      d == doy - ((153 * mp + 2) \div 5) + 1
      m == IF mp < 10 THEN mp + 3 ELSE mp - 9
  IN  [year |-> yoe + era * 400 + (IF m <= 2 THEN 1 ELSE 0),
       month |-> m, day |-> d]

\* the day of the week of a day number: 0 is Sunday
WeekDay(z) == (z + 4) % 7

\* the day number of the n-th Sunday of month m of year y, and of the last
\* Sunday of that month
NthSunday(y, m, n) ==
  LET first == DaysFromCivil(y, m, 1)
  IN  first + ((7 - WeekDay(first)) % 7) + 7 * (n - 1)

LastSunday(y, m) ==
  LET last == DaysFromCivil(y, m + 1, 1) - 1
  IN  last - WeekDay(last)

\* the zones of the model: standard offset from UTC in hours and the UTC
\* instants between which daylight saving time adds an hour
TimeZones == {"UTC", "Europe/Berlin", "America/New_York"}

StandardOffset(zone) ==
  CASE zone = "UTC" -> 0
    [] zone = "Europe/Berlin" -> 1
    [] zone = "America/New_York" -> -5

DaylightSaving(zone, t) ==
  LET y == CivilFromDays(t \div 24).year
  IN  CASE zone = "UTC" -> FALSE
        [] zone = "Europe/Berlin" ->
             /\ t >= LastSunday(y, 3) * 24 + 1
             /\ t < LastSunday(y, 10) * 24 + 1
        [] zone = "America/New_York" ->
             /\ t >= NthSunday(y, 3, 2) * 24 + 7
             /\ t < NthSunday(y, 11, 1) * 24 + 6

\* the offset of local time from UTC at the instant t
ZoneOffset(zone, t) ==
  StandardOffset(zone) + (IF DaylightSaving(zone, t) THEN 1 ELSE 0)

\* local time of an instant, and the instant of a local time (the offset is
\* the one in force when the local time is read as standard time)
LocalTime(zone, t) == t + ZoneOffset(zone, t)

InstantOfLocal(zone, local) ==
  local - ZoneOffset(zone, local - StandardOffset(zone))

\* date.getDay(), date.getDate() and date.getFullYear()
GetDay(zone, t) == WeekDay(LocalTime(zone, t) \div 24)

GetDate(zone, t) == CivilFromDays(LocalTime(zone, t) \div 24).day

GetFullYear(zone, t) == CivilFromDays(LocalTime(zone, t) \div 24).year

\* date.setDate(n): day n of the local month, the local time of day kept
SetDate(zone, t, n) ==
  LET local == LocalTime(zone, t)
      c == CivilFromDays(local \div 24)
  IN  InstantOfLocal(zone,
        DaysFromCivil(c.year, c.month, n) * 24 + (local % 24))

\* date.setFullYear(y): the local month, day and time of day kept
SetFullYear(zone, t, y) ==
  LET local == LocalTime(zone, t)
      c == CivilFromDays(local \div 24)
  IN  InstantOfLocal(zone,
        DaysFromCivil(y, c.month, c.day) * 24 + (local % 24))

\* the four decimal digits of k, for k in 0..9999
FourDigitString(k) == TwoDigitString(k \div 100) \o TwoDigitString(k % 100)

\* YYYY-MM-DD of a year, month and day
IsoDate(c) ==
  FourDigitString(c.year) \o s_dash \o TwoDigitString(c.month)
    \o s_dash \o TwoDigitString(c.day)

\* formatDateForGA: date.toISOString().split('T')[0], the UTC date
formatDateForGA(t) == IsoDate(CivilFromDays(t \div 24))

\* new Date(s) for a string s that DateParses: UTC midnight of the date
DateOfString(s) ==
  DaysFromCivil(DecimalValue(SubSeq(s, 1, 4)), TwoDigits(s, 6), 1) * 24
    + (TwoDigits(s, 9) - 1) * 24

\* getLastCompleteWeek when new Date() is the instant now
getLastCompleteWeek(zone, now) ==
  LET dayOfWeek == GetDay(zone, now)
      lastSunday ==
        SetDate(zone, now,
                GetDate(zone, now) - (IF dayOfWeek = 0 THEN 7 ELSE dayOfWeek))
      lastMonday == SetDate(zone, lastSunday, GetDate(zone, lastSunday) - 6)
  IN  [startDate |-> formatDateForGA(lastMonday),
       endDate |-> formatDateForGA(lastSunday)]

\* getSameWeekLastYear; toISOString throws a RangeError for an Invalid Date
getSameWeekLastYear(zone, dateRange) ==
  IF SameWeekLastYearThrows(dateRange) THEN RangeError
  ELSE
    LET start == DateOfString(dateRange.startDate)
        end == DateOfString(dateRange.endDate)
    IN  [startDate |->
           formatDateForGA(SetFullYear(zone, start,
                                       GetFullYear(zone, start) - 1)),
         endDate |->
           formatDateForGA(SetFullYear(zone, end,
                                       GetFullYear(zone, end) - 1))]

(***************************************************************************)
(* The calls of getLastCompleteWeek: every day of three fortnights (one    *)
(* over the end of March, one over the end of the year, one in June), at   *)
(* three times of the day, in each zone.                                   *)
(***************************************************************************)
SampleToday ==
  {DaysFromCivil(2024, 3, 25) + k : k \in 0..13}
    \cup {DaysFromCivil(2024, 12, 25) + k : k \in 0..13}
    \cup {DaysFromCivil(2025, 6, 1) + k : k \in 0..13}

SampleHours == {0, 12, 23}

InitLastCompleteWeek ==
  /\ op = "getLastCompleteWeek"
  /\ pc = "call"
  /\ input \in [zone : TimeZones,
                now : {day * 24 + hour :
                         day \in SampleToday, hour \in SampleHours}]
  /\ output = NoOutput
  /\ state = NoState

GetLastCompleteWeek ==
  /\ op = "getLastCompleteWeek"
  /\ pc = "call"
  /\ output' = getLastCompleteWeek(input.zone, input.now)
  /\ pc' = "return"
  /\ UNCHANGED <<op, input, state>>

SpecLastCompleteWeek == InitLastCompleteWeek /\ [][GetLastCompleteWeek]_vars

(***************************************************************************)
(* The calls of getSameWeekLastYear: the weeks that start on the days of   *)
(* SampleWeekStarts, and the relative tokens of the backend.               *)
(***************************************************************************)
SampleWeekStarts ==
  {DaysFromCivil(y, m, d) :
     y \in {2024, 2025}, m \in 1..12, d \in {1, 10, 23, 28}}

SampleDateRanges ==
  {[startDate |-> formatDateForGA(day * 24),
    endDate |-> formatDateForGA((day + 6) * 24)] : day \in SampleWeekStarts}
    \cup {[startDate |-> <<"7","d","a","y","s","A","g","o">>,
           endDate |-> <<"y","e","s","t","e","r","d","a","y">>]}

InitSameWeekLastYear ==
  /\ op = "getSameWeekLastYear"
  /\ pc = "call"
  /\ input \in [zone : TimeZones, dateRange : SampleDateRanges]
  /\ output = NoOutput
  /\ state = NoState

GetSameWeekLastYear ==
  /\ op = "getSameWeekLastYear"
  /\ pc = "call"
  /\ output' = getSameWeekLastYear(input.zone, input.dateRange)
  /\ pc' = "return"
  /\ UNCHANGED <<op, input, state>>

SpecSameWeekLastYear == InitSameWeekLastYear /\ [][GetSameWeekLastYear]_vars

(***************************************************************************)
(* Route handlers.  A request fans out into calls of the functions above;  *)
(* each call awaits its gateway queries one after the other.  The          *)
(* environment of a request says which queries fail and what they throw;   *)
(* a query without an entry returns a response.  data stands for the set   *)
(* of the results that the response body holds.                            *)
(***************************************************************************)
MaxFailedQueries == 2

\* what a failing query throws: an Error with a message, or another value
ErrorMessages == {"UNAVAILABLE", "PERMISSION_DENIED"}

ErrorOf(message) == [message |-> message]

NonError == [value |-> "rejected"]

FailureOutcomes == {ErrorOf(m) : m \in ErrorMessages} \cup {NonError}

\* the queries of each function in the order in which it awaits them;
\* optional marks the query inside a try whose catch swallows the failure
Query(id, optional) == [id |-> id, optional |-> optional]

FunctionQueries(fn) ==
  CASE fn = "getMetrics" -> <<Query("response", FALSE)>>
    [] fn = "getAggregatedMetrics" -> <<Query("response", FALSE)>>
    [] fn = "getTopPages" -> <<Query("response", FALSE)>>
    [] fn = "getTrafficSources" -> <<Query("response", FALSE)>>
    [] fn = "detectAnomalies" -> <<Query("response", FALSE)>>
    [] fn = "getLeadsAndConversions" ->
         <<Query("bySourceResponse", FALSE), Query("byDayResponse", FALSE)>>
    [] fn = "getWeeklyDashboardMetrics" ->
         <<Query("mainResponse", FALSE), Query("searchResponse", TRUE)>>
    [] fn = "getConversionsByChannel" ->
         <<Query("channelResponse", FALSE), Query("eventsResponse", FALSE),
           Query("searchResponse", TRUE)>>
    [] fn = "getDetailedChannelBreakdown" ->
         <<Query("sourceResponse", FALSE), Query("eventsResponse", FALSE)>>

\* a call of a function: name tells the calls of one request apart
Call(name, fn) == [name |-> name, fn |-> fn]

\* the keys of the queries of a call in the environment
CallKeys(call) ==
  {<<call.name, FunctionQueries(call.fn)[i].id>> :
     i \in DOMAIN FunctionQueries(call.fn)}

\* what the promise of a call rejects with: the value thrown by the first
\* query that fails outside a try; the empty set when the call resolves
CallRejections(call, failed) ==
  LET queries == FunctionQueries(call.fn)
      bad == {i \in DOMAIN queries :
                /\ ~queries[i].optional
                /\ <<call.name, queries[i].id>> \in DOMAIN failed}
      first == CHOOSE i \in bad : \A j \in bad : i <= j
  IN  IF bad = {} THEN {}
      ELSE {failed[<<call.name, queries[first].id>>]}

\* Promise.all over calls that swallows the failures of all but the first
AllRejections_firstCallOnly(calls, failed) ==
  IF calls = <<>> THEN {} ELSE CallRejections(calls[1], failed)

\* Promise.all: it rejects with the rejection that comes first in time,
\* which can be that of any of the calls that reject
AllRejections(calls, failed) ==
  UNION {CallRejections(calls[i], failed) : i \in DOMAIN calls}

\* comparePeriods: Promise.all of two getAggregatedMetrics
ComparePeriodsCalls ==
  <<Call("comparePeriods.getAggregatedMetrics(period1)",
         "getAggregatedMetrics"),
    Call("comparePeriods.getAggregatedMetrics(period2)",
         "getAggregatedMetrics")>>

\* compareWithLastYear: Promise.all of four aggregations
CompareWithLastYearCalls ==
  <<Call("compareWithLastYear.getWeeklyDashboardMetrics(currentPeriod)",
         "getWeeklyDashboardMetrics"),
    Call("compareWithLastYear.getWeeklyDashboardMetrics(lastYearPeriod)",
         "getWeeklyDashboardMetrics"),
    Call("compareWithLastYear.getConversionsByChannel(currentPeriod)",
         "getConversionsByChannel"),
    Call("compareWithLastYear.getConversionsByChannel(lastYearPeriod)",
         "getConversionsByChannel")>>

\* NextResponse.json of the try and of the catch
SuccessResponse(data) == [success |-> TRUE, data |-> data]

\* error instanceof Error ? error.message : "Unknown error", status 500
ErrorResponse(error) ==
  [success |-> FALSE,
   error |-> IF "message" \in DOMAIN error THEN error.message
             ELSE "Unknown error",
   status |-> 500]

InvalidActionResponse ==
  [success |-> FALSE,
   error |-> "Invalid action. Use: metrics, aggregated, topPages, trafficSources, compare, anomalies, or dashboard",
   status |-> 400]

\* the calls of each action of GET /api/analytics
AnalyticsCalls(action) ==
  CASE action = "metrics" -> <<Call("getMetrics", "getMetrics")>>
    [] action = "aggregated" ->
         <<Call("getAggregatedMetrics", "getAggregatedMetrics")>>
    [] action = "topPages" -> <<Call("getTopPages", "getTopPages")>>
    [] action = "trafficSources" ->
         <<Call("getTrafficSources", "getTrafficSources")>>
    [] action = "compare" -> ComparePeriodsCalls
    [] action = "anomalies" ->
         <<Call("detectAnomalies", "detectAnomalies")>>
    [] action = "dashboard" ->
         <<Call("getAggregatedMetrics", "getAggregatedMetrics"),
           Call("getMetrics", "getMetrics"),
           Call("getTopPages", "getTopPages"),
           Call("getTrafficSources", "getTrafficSources"),
           Call("detectAnomalies", "detectAnomalies")>>
    [] OTHER -> <<>>

AnalyticsActions ==
  {"metrics", "aggregated", "topPages", "trafficSources", "compare",
   "anomalies", "dashboard"}

\* the data of the response of an action
AnalyticsData(action) ==
  IF action = "dashboard"
    THEN {"aggregated", "metrics", "topPages", "trafficSources", "anomalies"}
    ELSE {action}

\* GET of /api/analytics: the responses it can give
AnalyticsGET(action, failed) ==
  IF action \notin AnalyticsActions THEN {InvalidActionResponse}
  ELSE LET rejections == AllRejections(AnalyticsCalls(action), failed)
       IN  IF rejections = {}
             THEN {SuccessResponse(AnalyticsData(action))}
             ELSE {ErrorResponse(error) : error \in rejections}

\* the calls of GET /api/analytics/weekly, in the order of its Promise.all;
\* compareWithLastYear is the Promise.all of its own four calls
WeeklyCalls ==
  <<Call("getWeeklyDashboardMetrics", "getWeeklyDashboardMetrics"),
    Call("getLeadsAndConversions", "getLeadsAndConversions"),
    Call("getTopPages", "getTopPages"),
    Call("getTrafficSources", "getTrafficSources")>>
    \o CompareWithLastYearCalls
    \o <<Call("getConversionsByChannel", "getConversionsByChannel"),
         Call("getDetailedChannelBreakdown", "getDetailedChannelBreakdown")>>

s_lastWeek == <<"l","a","s","t","W","e","e","k">>

s_7daysAgo == <<"7","d","a","y","s","A","g","o">>

s_yesterday == <<"y","e","s","t","e","r","d","a","y">>

\* currentPeriod of the weekly route: the last complete week, or the dates
\* of the request with their defaults
WeeklyCurrentPeriod(request) ==
  IF OrDefault(request.period, s_lastWeek) = s_lastWeek
    THEN getLastCompleteWeek(request.zone, request.now)
    ELSE [startDate |-> OrDefault(request.startDate, s_7daysAgo),
          endDate |-> OrDefault(request.endDate, s_yesterday)]

\* the TypeError of Object.values(undefined)
TypeErrorOfValues ==
  ErrorOf("Cannot convert undefined or null to object")

WeeklyDataKeys ==
  {"period", "totals", "daily", "leads", "topPages", "trafficSources",
   "conversionsByChannel", "detailedBreakdown", "rawPhoneCallsBySource",
   "comparison"}

\* an exception that leaves the handler: no response body is built
Uncaught(error) == [uncaught |-> error]

\* GET of /api/analytics/weekly: the responses it can give.
\* getSameWeekLastYear is called before the try; after the Promise.all the
\* handler reads the property breakdown of the result of
\* getDetailedChannelBreakdown, which is the object keyed by the categories,
\* and passes it to Object.values
WeeklyGET(request, failed) ==
  LET currentPeriod == WeeklyCurrentPeriod(request)
      rejections == AllRejections(WeeklyCalls, failed)
  IN  IF getSameWeekLastYear(request.zone, currentPeriod) = RangeError
        THEN {Uncaught(RangeError)}
      ELSE IF rejections # {}
        THEN {ErrorResponse(error) : error \in rejections}
      ELSE IF "breakdown" \notin Categories
        THEN {ErrorResponse(TypeErrorOfValues)}
      ELSE {SuccessResponse(WeeklyDataKeys)}

(***************************************************************************)
(* The requests: every action of /api/analytics and four requests of       *)
(* /api/analytics/weekly, each in every environment in which at most       *)
(* MaxFailedQueries queries fail.                                          *)
(***************************************************************************)
RECURSIVE KeySets(_, _)
\* the subsets of keys with at most n elements
KeySets(keys, n) ==
  IF n = 0 THEN {{}}
  ELSE LET smaller == KeySets(keys, n - 1)
       IN  smaller \cup {s \cup {k} : s \in smaller, k \in keys}

\* the environments over a set of query keys
Environments(keys) ==
  UNION {[s -> FailureOutcomes] : s \in KeySets(keys, MaxFailedQueries)}

AnalyticsKeys ==
  UNION {UNION {CallKeys(AnalyticsCalls(action)[i]) :
                  i \in DOMAIN AnalyticsCalls(action)} :
           action \in AnalyticsActions}

WeeklyKeys == UNION {CallKeys(WeeklyCalls[i]) : i \in DOMAIN WeeklyCalls}

\* a missing action is null and takes the default branch like any other
\* value that is not an action
SampleActions == AnalyticsActions \cup {"", "weekly"}

SampleWeeklyRequests ==
  {[period |-> Missing, startDate |-> Missing, endDate |-> Missing,
    zone |-> "UTC", now |-> DaysFromCivil(2024, 3, 27) * 24 + 12],
   [period |-> s_lastWeek, startDate |-> Missing, endDate |-> Missing,
    zone |-> "Europe/Berlin", now |-> DaysFromCivil(2024, 3, 31) * 24 + 23],
   [period |-> <<"c","u","s","t","o","m">>,
    startDate |-> <<"2","0","2","4","-","0","1","-","0","8">>,
    endDate |-> <<"2","0","2","4","-","0","1","-","1","4">>,
    zone |-> "UTC", now |-> DaysFromCivil(2024, 3, 27) * 24 + 12],
   [period |-> <<"c","u","s","t","o","m">>,
    startDate |-> Missing, endDate |-> Missing,
    zone |-> "UTC", now |-> DaysFromCivil(2024, 3, 27) * 24 + 12]}

InitAnalyticsGET ==
  /\ op = "GET /api/analytics"
  /\ pc = "call"
  /\ input \in [action : SampleActions, failed : Environments(AnalyticsKeys)]
  /\ output = NoOutput
  /\ state = NoState

AnalyticsRoute ==
  /\ op = "GET /api/analytics"
  /\ pc = "call"
  /\ output' \in AnalyticsGET(input.action, input.failed)
  /\ pc' = "return"
  /\ UNCHANGED <<op, input, state>>

InitWeeklyGET ==
  /\ op = "GET /api/analytics/weekly"
  /\ pc = "call"
  /\ input \in [request : SampleWeeklyRequests,
                failed : Environments(WeeklyKeys)]
  /\ output = NoOutput
  /\ state = NoState

WeeklyRoute ==
  /\ op = "GET /api/analytics/weekly"
  /\ pc = "call"
  /\ output' \in WeeklyGET(input.request, input.failed)
  /\ pc' = "return"
  /\ UNCHANGED <<op, input, state>>

\* the two route handlers
SpecRoutes ==
  /\ InitAnalyticsGET \/ InitWeeklyGET
  /\ [][AnalyticsRoute \/ WeeklyRoute]_vars

(***************************************************************************)
(* Inputs of getDetailedChannelBreakdown in which sources and mediums      *)
(* carry the character that the event-data key puts between them.          *)
(***************************************************************************)
SampleKeySourceRows ==
  { [dimensionValues |-> <<<<"p","r","o","m","o">>, <<"e","m","a","i","l","|","c","p","c">>>>,
       metricValues |-> <<<<"5">>, <<"6">>, <<"1">>>>],
    [dimensionValues |-> <<<<"p","r","o","m","o","|","e","m","a","i","l">>, <<"c","p","c">>>>,
       metricValues |-> <<<<"2">>, <<"3">>, <<"0">>>>],
    [dimensionValues |-> <<<<"g","o","o","g","l","e">>, <<"o","r","g","a","n","i","c">>>>,
       metricValues |-> <<<<"1","0">>, <<"1","2">>, <<"3">>>>] }

SampleKeyEventRows ==
  { [dimensionValues |-> <<<<"p","r","o","m","o","|","e","m","a","i","l">>, <<"c","p","c">>, <<"f","o","r","m","_","s","u","b","m","i","t">>>>,
       metricValues |-> <<<<"2">>>>],
    [dimensionValues |-> <<<<"p","r","o","m","o">>, <<"e","m","a","i","l","|","c","p","c">>, <<"p","h","o","n","e","_","c","l","i","c","k">>>>,
       metricValues |-> <<<<"3">>>>],
    [dimensionValues |-> <<<<"g","o","o","g","l","e">>, <<"o","r","g","a","n","i","c">>, <<"g","e","n","e","r","a","t","e","_","l","e","a","d">>>>,
       metricValues |-> <<<<"1">>>>],
    [dimensionValues |-> <<<<"g","o","o","g","l","e">>, <<"o","r","g","a","n","i","c">>, <<"p","a","g","e","_","v","i","e","w">>>>,
       metricValues |-> <<<<"7">>>>] }

InitBreakdownKeys ==
  /\ op = "getDetailedChannelBreakdown"
  /\ pc = "call"
  /\ input \in
       [sourceResponse : Responses(SampleKeySourceRows, MaxSourceRows),
        eventsResponse : Responses(SampleKeyEventRows, MaxEventRows)]
  /\ output = NoOutput
  /\ state = NoState

SpecBreakdownKeys == InitBreakdownKeys /\ [][GetDetailedChannelBreakdown]_vars

(***************************************************************************)
(* getMetrics: one result per row of the response, with the default        *)
(* metrics activeUsers, sessions, bounceRate, conversions, screenPageViews.*)
(***************************************************************************)
\* the object pushed to results for one row
MetricsResultOf(row) ==
  [date |-> formatDate(OrDefault(DimensionValue(row, 0), <<>>)),
   users |-> parseInt(OrDefault(MetricValue(row, 0), s_0)),
   sessions |-> parseInt(OrDefault(MetricValue(row, 1), s_0)),
   bounceRate |->
     FracMul(parseFloat(OrDefault(MetricValue(row, 2), s_0)), Num(100)),
   conversions |-> parseInt(OrDefault(MetricValue(row, 3), s_0)),
   pageviews |-> parseInt(OrDefault(MetricValue(row, 4), s_0))]

getMetrics(response) ==
  [i \in DOMAIN RowsOf(response) |-> MetricsResultOf(RowsOf(response)[i])]

\* most rows in the response of getMetrics
MaxMetricRows == 3

\* a complete row, a row without any value, a row whose date, sessions and
\* conversions are missing, and a row whose last metric is missing
SampleMetricRows ==
  { [dimensionValues |-> <<<<"2","0","2","4","0","1","0","8">>>>,
       metricValues |-> <<<<"1","0">>, <<"1","2">>, <<"0",".","5">>, <<"3">>, <<"3","0">>>>],
    [dimensionValues |-> <<>>, metricValues |-> <<>>],
    [dimensionValues |-> <<Missing>>,
       metricValues |-> <<<<"7">>, Missing, <<"0",".","2","5">>, Missing, <<"9">>>>],
    [dimensionValues |-> <<<<"2","0","2","4","0","1","0","9">>>>,
       metricValues |-> <<<<"5">>, <<"6">>, Missing, <<"1">>>>] }

InitGetMetrics ==
  /\ op = "getMetrics"
  /\ pc = "call"
  /\ input \in [response : Responses(SampleMetricRows, MaxMetricRows)]
  /\ output = NoOutput
  /\ state = NoState

GetMetrics ==
  /\ op = "getMetrics"
  /\ pc = "call"
  /\ output' = getMetrics(input.response)
  /\ pc' = "return"
  /\ UNCHANGED <<op, input, state>>

\* the aggregations named for rows with missing values
SpecMissingValues ==
  /\ InitGetMetrics \/ InitBreakdown
  /\ [][GetMetrics \/ GetDetailedChannelBreakdown]_vars

\* the operations that derive rates by division
SpecRates ==
  /\ \/ InitWeekly
     \/ InitComparePeriods
     \/ InitCompareWithLastYear
     \/ InitDetectAnomalies
  /\ [][\/ GetWeeklyDashboardMetrics
        \/ ComparePeriods
        \/ CompareWithLastYear
        \/ DetectAnomalies]_vars

(***************************************************************************)
(* The chat tool loop.  chat sends the messages to the language model and, *)
(* while the response stops for tool use, executes the requested tools and *)
(* sends the messages again with the response and the tool results         *)
(* appended.  The model's responses and the outcomes of the analytics      *)
(* calls behind the tools are chosen by the environment.  state holds the  *)
(* locals messages and response; at an await of messages.create the        *)
(* request in flight carries messages.                                     *)
(***************************************************************************)
\* most content blocks in a response of the model
MaxBlocks == 2

\* most responses that stop for tool use in one chat
MaxRounds == 2

\* the cases of the switch of executeToolCall and the function each calls
ToolFunction ==
  [get_metrics |-> "getMetrics",
   get_aggregated_metrics |-> "getAggregatedMetrics",
   get_top_pages |-> "getTopPages",
   get_traffic_sources |-> "getTrafficSources",
   compare_periods |-> "comparePeriods",
   detect_anomalies |-> "detectAnomalies"]

\* JSON.stringify(value): the text of a value, kept apart from the value
JSONStringify(value) == [json |-> value]

\* executeToolCall with an unknown tool name rejecting
executeToolCall_unknownThrows(toolName, gateway) ==
  IF toolName \in DOMAIN ToolFunction /\ gateway = "resolves"
    THEN JSONStringify([result |-> ToolFunction[toolName]])
    ELSE Throws

\* executeToolCall: gateway tells whether the analytics call of a known
\* tool resolves or rejects
executeToolCall(toolName, gateway) ==
  IF toolName \in DOMAIN ToolFunction
    THEN IF gateway = "rejects" THEN Throws
         ELSE JSONStringify([result |-> ToolFunction[toolName]])
    ELSE JSONStringify([error |-> <<"Unknown tool: ", toolName>>])

\* response.content.filter(block => block.type === "tool_use")
ToolUseBlocks(content) ==
  SelectSeq(content, LAMBDA block : block.type = "tool_use")

\* toolUseBlocks.map(async toolUse => ...): the settled value of each promise
ToolResults(toolUseBlocks, gateways) ==
  [i \in DOMAIN toolUseBlocks |->
     LET result == executeToolCall(toolUseBlocks[i].name, gateways[i])
     IN  IF result = Throws THEN Throws
         ELSE [type |-> "tool_result",
               tool_use_id |-> toolUseBlocks[i].id,
               content |-> result]]

\* response.content.find(block => block.type === "text")?.text || apology
ResponseText(content) ==
  LET texts == SelectSeq(content, LAMBDA block : block.type = "text")
  IN  IF texts = <<>> \/ texts[1].text = ""
        THEN "I apologize, but I couldn't generate a response."
        ELSE texts[1].text

\* tool names the model asks for: a tool and a name that is no tool
SampleToolNames == {"get_metrics", "export_csv"}

\* the content blocks of the response number round: a tool use whose id is
\* particular to the response and the position or, in the first position,
\* a text
SampleBlocks(round, i) ==
  {[type |-> "tool_use", id |-> <<"toolu", round, i>>, name |-> n] :
     n \in SampleToolNames}
    \cup (IF i = 1 THEN {[type |-> "text", text |-> "answer"]} ELSE {})

SampleContents(round) ==
  UNION {{c \in [1..k -> UNION {SampleBlocks(round, i) : i \in 1..k}] :
            \A i \in 1..k : c[i] \in SampleBlocks(round, i)} :
         k \in 0..MaxBlocks}

\* the contents of the responses that do not stop for tool use: no block, a
\* text, and a tool use left over before a text
SampleFinalContents(round) ==
  {<<>>,
   <<[type |-> "text", text |-> "answer"]>>,
   <<[type |-> "tool_use", id |-> <<"toolu", round, 1>>, name |-> "get_metrics"],
     [type |-> "text", text |-> "answer"]>>}

ModelResponses(round) ==
  [stop_reason : {"tool_use"}, content : SampleContents(round)]
    \cup [stop_reason : {"end_turn", "max_tokens"},
          content : SampleFinalContents(round)]

\* no history, and an earlier exchange of the conversation
SampleHistories ==
  {<<>>,
   <<[role |-> "user", content |-> "sessions last week?"],
     [role |-> "assistant", content |-> "1200"]>>}

\* the response before the first one
NoResponse == [stop_reason |-> "none", content |-> <<>>]

\* the number of responses that stopped for tool use so far: each of them
\* pushed two messages
Rounds == (Len(state.messages) - Len(input.conversationHistory) - 1) \div 2

\* the call of chat up to its first await: the history and the user's
\* message are sent
InitChat ==
  /\ op = "chat"
  /\ pc = "create"
  /\ input \in [userMessage : {"and users?"},
                conversationHistory : SampleHistories]
  /\ output = NoOutput
  /\ state = [messages |->
                Append(input.conversationHistory,
                       [role |-> "user", content |-> input.userMessage]),
              response |-> NoResponse]

\* client.messages.create resolves: the loop test, and the return when the
\* response did not stop for tool use
ChatCreateResolves ==
  /\ op = "chat"
  /\ pc = "create"
  /\ \E response \in ModelResponses(Rounds + 1) :
       /\ response.stop_reason = "tool_use" => Rounds < MaxRounds
       /\ state' = [state EXCEPT !.response = response]
       /\ IF response.stop_reason = "tool_use"
            THEN pc' = "tools" /\ output' = output
            ELSE pc' = "return" /\ output' = ResponseText(response.content)
  /\ UNCHANGED <<op, input>>

\* client.messages.create rejects: chat rejects
ChatCreateRejects ==
  /\ op = "chat"
  /\ pc = "create"
  /\ pc' = "throw"
  /\ output' = [thrown |-> "messages.create"]
  /\ UNCHANGED <<op, input, state>>

\* the Promise.all of the tool calls settles: with all results the response
\* and the results are pushed and the messages are sent again; with a
\* rejection chat rejects
ChatTools ==
  /\ op = "chat"
  /\ pc = "tools"
  /\ LET toolUseBlocks == ToolUseBlocks(state.response.content)
     IN  \E gateways \in [DOMAIN toolUseBlocks -> {"resolves", "rejects"}] :
           LET toolResults == ToolResults(toolUseBlocks, gateways)
               rejected == {i \in DOMAIN toolResults : toolResults[i] = Throws}
           IN  IF rejected = {}
                 THEN /\ state' = [state EXCEPT !.messages =
                                     @ \o <<[role |-> "assistant",
                                             content |-> state.response.content],
                                            [role |-> "user",
                                             content |-> toolResults]>>]
                      /\ pc' = "create"
                      /\ output' = output
                 ELSE /\ \E i \in rejected :
                           output' = [thrown |-> "executeToolCall",
                                      toolName |-> toolUseBlocks[i].name]
                      /\ pc' = "throw"
                      /\ state' = state
  /\ UNCHANGED <<op, input>>

SpecChat ==
  /\ InitChat
  /\ [][ChatCreateResolves \/ ChatCreateRejects \/ ChatTools]_vars

(***************************************************************************)
(* The dashboard pages.  A page is a component with React state; state     *)
(* holds it together with the fetches in flight.  fetchData runs when the  *)
(* page mounts, whenever the date range or the period it depends on        *)
(* changes, and on Retry; nothing cancels a fetch, and the responses       *)
(* arrive in any order.  The data of a response is identified by the       *)
(* range or period that was requested.                                     *)
(***************************************************************************)
\* most calls of fetchData while a page is mounted
MaxFetches == 3

\* the null of a state that holds no value
Null == [null |-> TRUE]

\* what a request can end with: a body with success true, a body with
\* success false, or a rejection of fetch or of response.json()
FetchOutcomes == {"success", "failure", "rejects"}

\* the date ranges of the picker's presets that are used
SampleRanges == {"7days", "30days"}

\* err instanceof Error ? err.message : "An error occurred"
CaughtMessage(outcome, body) ==
  IF outcome = "failure" THEN [message |-> body] ELSE [message |-> "Failed to fetch"]

\* fetchData of either page up to its first await: setIsLoading(true),
\* setError(null), and the request for the current selection is in flight
StartFetch(page, selection) ==
  [page EXCEPT
     !.isLoading = TRUE,
     !.error = Null,
     !.started = @ + 1,
     !.inflight = @ \cup {[id |-> page.started + 1,
                           selection |-> selection,
                           request |-> "first"]}]

\* Dashboard after mounting: useState defaults, and the effect has called
\* fetchData
InitDashboard ==
  /\ op = "Dashboard"
  /\ pc = "mounted"
  /\ input = [action |-> "dashboard"]
  /\ output = NoOutput
  /\ state = StartFetch([data |-> Null, comparison |-> Null, isLoading |-> TRUE,
                         error |-> Null, dateRange |-> "7days",
                         started |-> 0, inflight |-> {}],
                        "7days")

\* handleDateChange from the DatePicker, which is rendered unless the error
\* view is: setDateRange with a new object, so the effect calls fetchData
DashboardDateChange ==
  /\ op = "Dashboard"
  /\ state.error = Null
  /\ state.started < MaxFetches
  /\ \E range \in SampleRanges :
       state' = StartFetch([state EXCEPT !.dateRange = range], range)
  /\ UNCHANGED <<op, pc, input, output>>

\* the Retry button of the error view: fetchData with the current range
DashboardRetry ==
  /\ op = "Dashboard"
  /\ state.error # Null
  /\ state.started < MaxFetches
  /\ state' = StartFetch(state, state.dateRange)
  /\ UNCHANGED <<op, pc, input, output>>

\* the dashboard request of a fetchData settles: on success setData and the
\* compare request goes out; otherwise the catch sets the error and the
\* finally clears isLoading
DashboardFirstSettles ==
  /\ op = "Dashboard"
  /\ \E f \in state.inflight : \E outcome \in FetchOutcomes :
       /\ f.request = "first"
       /\ state' =
            IF outcome = "success"
              THEN [state EXCEPT
                      !.data = [selection |-> f.selection],
                      !.inflight = (@ \ {f})
                         \cup {[f EXCEPT !.request = "compare"]}]
              ELSE [state EXCEPT
                      !.error = CaughtMessage(outcome, "Failed to fetch dashboard data"),
                      !.isLoading = FALSE,
                      !.inflight = @ \ {f}]
  /\ UNCHANGED <<op, pc, input, output>>

\* the compare request of a fetchData settles: setComparison on success,
\* nothing for a body without success, the catch for a rejection; then the
\* finally clears isLoading
DashboardCompareSettles ==
  /\ op = "Dashboard"
  /\ \E f \in state.inflight : \E outcome \in FetchOutcomes :
       /\ f.request = "compare"
       /\ state' =
            [state EXCEPT
               !.comparison = IF outcome = "success"
                                THEN [selection |-> f.selection] ELSE @,
               !.error = IF outcome = "rejects"
                           THEN CaughtMessage(outcome, "") ELSE @,
               !.isLoading = FALSE,
               !.inflight = @ \ {f}]
  /\ UNCHANGED <<op, pc, input, output>>

\* WeeklyDashboard after mounting
InitWeeklyDashboard ==
  /\ op = "WeeklyDashboard"
  /\ pc = "mounted"
  /\ input = [action |-> "weekly"]
  /\ output = NoOutput
  /\ state = StartFetch([data |-> Null, isLoading |-> TRUE, error |-> Null,
                         periodType |-> "lastWeek",
                         started |-> 0, inflight |-> {}],
                        "lastWeek")

\* a period button, rendered when there is no error, isLoading is false
\* and data is present: setPeriodType; a click on the current period leaves
\* the state as it is and nothing runs
WeeklySetPeriodType ==
  /\ op = "WeeklyDashboard"
  /\ state.error = Null
  /\ ~state.isLoading
  /\ state.data # Null
  /\ state.started < MaxFetches
  /\ \E periodType \in {"lastWeek", "last7days"} :
       state' = IF periodType = state.periodType THEN state
                ELSE StartFetch([state EXCEPT !.periodType = periodType],
                                periodType)
  /\ UNCHANGED <<op, pc, input, output>>

\* the Retry button of the error view
WeeklyRetry ==
  /\ op = "WeeklyDashboard"
  /\ state.error # Null
  /\ state.started < MaxFetches
  /\ state' = StartFetch(state, state.periodType)
  /\ UNCHANGED <<op, pc, input, output>>

\* the request of a fetchData settles: setData on success, the catch
\* otherwise, and the finally clears isLoading
WeeklySettles ==
  /\ op = "WeeklyDashboard"
  /\ \E f \in state.inflight : \E outcome \in FetchOutcomes :
       state' =
         [state EXCEPT
            !.data = IF outcome = "success"
                       THEN [selection |-> f.selection] ELSE @,
            !.error = IF outcome = "success" THEN @
                      ELSE CaughtMessage(outcome, "Failed to fetch data"),
            !.isLoading = FALSE,
            !.inflight = @ \ {f}]
  /\ UNCHANGED <<op, pc, input, output>>

\* the two dashboard pages
SpecDashboards ==
  /\ InitDashboard \/ InitWeeklyDashboard
  /\ [][\/ DashboardDateChange
        \/ DashboardRetry
        \/ DashboardFirstSettles
        \/ DashboardCompareSettles
        \/ WeeklySetPeriodType
        \/ WeeklyRetry
        \/ WeeklySettles]_vars

(***************************************************************************)
(* The chat panel AIChat and the chat route it posts to.  state holds the  *)
(* panel's React state (messages, input, isLoading) and the requests in    *)
(* flight; pc names the handler that ran last.  A text is a sequence of    *)
(* pieces; what the user types is a sequence of characters.                *)
(***************************************************************************)
\* most user messages of one transcript
MaxTurns == 2

\* white space that String.prototype.trim removes
WhiteSpace == {" ", "\n", "\t"}

RECURSIVE TrimStart(_)
\* the text without its leading white space
TrimStart(text) ==
  IF text # <<>> /\ Head(text) \in WhiteSpace THEN TrimStart(Tail(text)) ELSE text

RECURSIVE TrimEnd(_)
\* the text without its trailing white space
TrimEnd(text) ==
  IF text # <<>> /\ text[Len(text)] \in WhiteSpace
    THEN TrimEnd(SubSeq(text, 1, Len(text) - 1))
    ELSE text

\* String.prototype.trim
Trim(text) == TrimEnd(TrimStart(text))

\* sendMessage without its guard on isLoading and on a blank input
sendMessage_unguarded(panel) ==
  LET userMessage == Trim(panel.input)
  IN  [panel EXCEPT
         !.input = <<>>,
         !.messages = Append(@, [role |-> "user", content |-> userMessage]),
         !.isLoading = TRUE,
         !.inflight = @ \cup {[handler |-> "sendMessage",
                               body |-> [message |-> userMessage,
                                         history |-> panel.messages]]}]

\* sendMessage up to its first await: nothing when the input is blank or a
\* request is loading; otherwise the input is cleared, the user message is
\* appended, isLoading is set and the request is in flight
sendMessage(panel) ==
  IF Trim(panel.input) = <<>> \/ panel.isLoading
    THEN panel
    ELSE LET userMessage == Trim(panel.input)
         IN  [panel EXCEPT
                !.input = <<>>,
                !.messages = Append(@, [role |-> "user", content |-> userMessage]),
                !.isLoading = TRUE,
                !.inflight = @ \cup {[handler |-> "sendMessage",
                                      body |-> [message |-> userMessage,
                                                history |-> panel.messages]]}]

\* generateReport up to its first await
generateReport(panel, reportType) ==
  [panel EXCEPT
     !.isLoading = TRUE,
     !.messages = Append(@, [role |-> "user",
                             content |-> <<"Generate ", reportType, " report">>]),
     !.inflight = @ \cup {[handler |-> "generateReport",
                           body |-> [action |-> "report",
                                     reportType |-> reportType]]}]

\* POST of the chat route: the report for action "report", 400 without a
\* message, otherwise the chat; an exception of the agent becomes a body
\* with success false
ChatRoutePOST(body, backend) ==
  IF backend = "throws"
    THEN [success |-> FALSE, error |-> <<"agent error">>]
  ELSE IF backend = "throwsEmpty"
    THEN [success |-> FALSE, error |-> <<>>]
  ELSE IF "action" \in DOMAIN body /\ body.action = "report"
    THEN [success |-> TRUE, response |-> <<"report ", body.reportType>>]
  ELSE IF body.message = <<>>
    THEN [success |-> FALSE, error |-> <<"Message is required">>]
  ELSE [success |-> TRUE, response |-> <<"answer to ">> \o body.message]

\* the assistant message a handler appends once its request has settled
AssistantMessage(handler, network, data) ==
  [role |-> "assistant",
   content |->
     IF network = "rejects"
       THEN IF handler = "sendMessage"
              THEN <<"Error: Failed to connect to the server">>
              ELSE <<"Error: Failed to generate report">>
     ELSE IF data.success THEN data.response
     ELSE IF handler = "sendMessage"
       THEN <<"Error: ">> \o OrDefault(data.error, <<"Failed to get response">>)
     ELSE <<"Error: ">> \o data.error]

\* the chat and the report of the agent return, or throw an Error with a
\* message or with an empty one
Backends == {"answers", "throws", "throwsEmpty"}

\* what the user types in this model
SampleInputs ==
  {<<>>, <<" ">>, <<"h", "i">>, <<" ", "h", "i", "\n">>}

\* AIChat after mounting
InitChatPanel ==
  /\ op = "AIChat"
  /\ pc = "mounted"
  /\ input = [component |-> "AIChat"]
  /\ output = NoOutput
  /\ state = [messages |-> <<>>, input |-> <<>>, isLoading |-> FALSE,
              inflight |-> {}]

\* onChange of the textarea, which is disabled while isLoading
PanelSetInput ==
  /\ op = "AIChat"
  /\ ~state.isLoading
  /\ \E text \in SampleInputs :
       /\ text # state.input
       /\ state' = [state EXCEPT !.input = text]
  /\ pc' = "setInput"
  /\ UNCHANGED <<op, input, output>>

\* sendMessage is called, from the Send button or from the Enter key
PanelSendMessage ==
  /\ op = "AIChat"
  /\ sendMessage(state) # state => Len(state.messages) < 2 * MaxTurns
  /\ state' = sendMessage(state)
  /\ pc' = "sendMessage"
  /\ UNCHANGED <<op, input, output>>

\* a report button, rendered while the transcript is empty
PanelGenerateReport ==
  /\ op = "AIChat"
  /\ state.messages = <<>>
  /\ \E reportType \in {"daily", "weekly", "monthly"} :
       state' = generateReport(state, reportType)
  /\ pc' = "generateReport"
  /\ UNCHANGED <<op, input, output>>

\* a request settles: the handler appends the response or an error text,
\* and its finally clears isLoading
PanelSettles ==
  /\ op = "AIChat"
  /\ \E f \in state.inflight :
       \E network \in {"delivers", "rejects"} : \E backend \in Backends :
         state' =
           [state EXCEPT
              !.messages = Append(@, AssistantMessage(f.handler, network,
                                        ChatRoutePOST(f.body, backend))),
              !.isLoading = FALSE,
              !.inflight = @ \ {f}]
  /\ pc' = "settled"
  /\ UNCHANGED <<op, input, output>>

\* the handlers of the chat panel
NextChatPanel ==
  \/ PanelSetInput
  \/ PanelSendMessage
  \/ PanelGenerateReport
  \/ PanelSettles

\* the chat panel
SpecChatPanel == InitChatPanel /\ [][NextChatPanel]_vars

\* the chat panel when every request settles: fetch resolves or rejects
\* once the server has answered or the connection has failed
SpecChatPanelLive == SpecChatPanel /\ WF_vars(PanelSettles)

Init ==
  \/ InitCategorize
  \/ InitBreakdown
  \/ InitConversions
  \/ InitComparePeriods
  \/ InitCompareWithLastYear
  \/ InitDetectAnomalies
  \/ InitFormatDate
  \/ InitWeekly
  \/ InitLastCompleteWeek
  \/ InitSameWeekLastYear
  \/ InitAnalyticsGET
  \/ InitWeeklyGET
  \/ InitBreakdownKeys
  \/ InitGetMetrics
  \/ InitChat
  \/ InitDashboard
  \/ InitWeeklyDashboard
  \/ InitChatPanel

Next ==
  \/ CategorizeSource
  \/ GetDetailedChannelBreakdown
  \/ GetConversionsByChannel
  \/ ComparePeriods
  \/ CompareWithLastYear
  \/ DetectAnomalies
  \/ FormatDate
  \/ GetWeeklyDashboardMetrics
  \/ GetLastCompleteWeek
  \/ GetSameWeekLastYear
  \/ AnalyticsRoute
  \/ WeeklyRoute
  \/ GetMetrics
  \/ ChatCreateResolves
  \/ ChatCreateRejects
  \/ ChatTools
  \/ DashboardDateChange
  \/ DashboardRetry
  \/ DashboardFirstSettles
  \/ DashboardCompareSettles
  \/ WeeklySetPeriodType
  \/ WeeklyRetry
  \/ WeeklySettles
  \/ PanelSetInput
  \/ PanelSendMessage
  \/ PanelGenerateReport
  \/ PanelSettles

Spec == Init /\ [][Next]_vars

(***************************************************************************)
(* Properties of the source categorizer.                                   *)
(***************************************************************************)
Categorized == op = "categorizeSource" /\ pc = "return"

s_google == <<"g","o","o","g","l","e">>
s_chatgpt_com == <<"c","h","a","t","g","p","t",".","c","o","m">>
s_yelp_com == <<"y","e","l","p",".","c","o","m">>
s_unknownsite_xyz == <<"u","n","k","n","o","w","n","s","i","t","e",".","x","y","z">>
s_yahoo == <<"y","a","h","o","o">>
s_newsletter == <<"n","e","w","s","l","e","t","t","e","r">>
s_email == <<"e","m","a","i","l">>
s_t_co == <<"t",".","c","o">>

\* the rules of the categorizer in their order, and the condition of each
RuleOrder ==
  <<"llmAI", "listings", "paidSearch", "organicSearch",
    "social", "referral", "direct">>

RuleHolds(k, sourceLower, mediumLower) ==
  CASE k = 1 -> IsLLMSource(sourceLower)
    [] k = 2 -> IsListingSource(sourceLower)
    [] k = 3 -> IsPaidMedium(mediumLower)
    [] k = 4 -> IsOrganicSearch(sourceLower, mediumLower)
    [] k = 5 -> IsSocial(sourceLower, mediumLower)
    [] k = 6 -> IsReferral(mediumLower)
    [] k = 7 -> IsDirect(sourceLower, mediumLower)

HeldRules(in) ==
  {k \in DOMAIN RuleOrder :
      RuleHolds(k, toLowerCase(in.source), toLowerCase(in.medium))}

Least(S) == CHOOSE k \in S : \A j \in S : k <= j

\* C1: categorizeSource is total: for every (source, medium) pair it returns
\* a value, and that value is one of the eight tags that key the breakdown
\* mapping.
C1_CategorizeTotal == Categorized => output \in Categories

\* the default branch was taken and gave the tag "other"
C1_Witness ==
  /\ Categorized
  /\ HeldRules(input) = {}
  /\ output = "other"

\* C2: the result is the category of the first rule, in the order llmAI,
\* listings, paidSearch, organicSearch, social, referral, direct, whose
\* condition holds for the lower-cased input, and other when none holds; an
\* LLM source is llmAI and a listing source that is no LLM source is listings
\* whatever the medium.
C2_FirstMatchWins ==
  Categorized =>
    /\ output = IF HeldRules(input) = {} THEN "other"
                ELSE RuleOrder[Least(HeldRules(input))]
    /\ 1 \in HeldRules(input) => output = "llmAI"
    /\ (2 \in HeldRules(input) /\ 1 \notin HeldRules(input))
          => output = "listings"

\* a listing source with a paid medium: two rules hold, the earlier one wins
C2_Witness ==
  /\ Categorized
  /\ {2, 3} \subseteq HeldRules(input)
  /\ 1 \notin HeldRules(input)
  /\ output = "listings"

\* C3: categorizeSource("google", "organic") is organicSearch,
\* categorizeSource("google", "cpc") is paidSearch, and whenever the medium
\* is "organic" and the source contains a known search-engine name the
\* result is organicSearch.
C3_GoogleOrganic ==
  Categorized =>
    /\ (input.source = s_google /\ input.medium = s_organic)
          => output = "organicSearch"
    /\ (input.source = s_google /\ input.medium = s_cpc)
          => output = "paidSearch"
    /\ 4 \in HeldRules(input) => output = "organicSearch"

\* C4: ("chatgpt.com", "referral") is llmAI, ("yelp.com", "referral") is
\* listings, ("(direct)", "(none)") is direct and ("unknownsite.xyz",
\* "referral") is referral.
C4_Examples ==
  Categorized =>
    /\ (input.source = s_chatgpt_com /\ input.medium = s_referral)
          => output = "llmAI"
    /\ (input.source = s_yelp_com /\ input.medium = s_referral)
          => output = "listings"
    /\ (input.source = s_pdirect /\ input.medium = s_pnone)
          => output = "direct"
    /\ (input.source = s_unknownsite_xyz /\ input.medium = s_referral)
          => output = "referral"

\* the referral medium decided the category of an unknown site
C4_Witness ==
  /\ Categorized
  /\ input.source = s_unknownsite_xyz
  /\ input.medium = s_referral
  /\ output = "referral"

\* one constructed input per tag
TagExample ==
  [c \in Categories |->
     CASE c = "organicSearch" -> [source |-> s_yahoo, medium |-> s_organic]
       [] c = "paidSearch" -> [source |-> s_newsletter, medium |-> s_cpc]
       [] c = "llmAI" -> [source |-> s_chatgpt_com, medium |-> s_referral]
       [] c = "listings" -> [source |-> s_yelp_com, medium |-> s_referral]
       [] c = "social" -> [source |-> s_t_co, medium |-> s_social]
       [] c = "referral" ->
            [source |-> s_unknownsite_xyz, medium |-> s_referral]
       [] c = "direct" -> [source |-> s_pdirect, medium |-> s_pnone]
       [] c = "other" -> [source |-> s_newsletter, medium |-> s_email]]

\* C5: every one of the eight tags is returned for some input: each tag has
\* a constructed input among the inputs of the categorizer, and the call on
\* that input returns the tag.
C5_EveryTagReachable ==
  \A c \in Categories :
     /\ TagExample[c] \in [source : Sources, medium : Mediums]
     /\ (Categorized /\ input = TagExample[c]) => output = c

\* organicSearch, the tag behind the most earlier rules, was returned
C5_Witness ==
  /\ Categorized
  /\ input = TagExample["organicSearch"]
  /\ output = "organicSearch"

\* C6 as stated: at most one of the conditions of rules 2-8 holds for an
\* input.
C6_AtMostOneRuleHolds ==
  Categorized => Cardinality(HeldRules(input)) <= 1

\* C6 amended: the conditions may hold together, and then only the earliest
\* decides: the returned category is never that of a rule before which
\* another rule's condition holds.
C6_EarliestRuleDecides ==
  Categorized =>
    \A k \in DOMAIN RuleOrder :
       output = RuleOrder[k] =>
          /\ k \in HeldRules(input)
          /\ \A j \in 1..(k - 1) : j \notin HeldRules(input)

\* three conditions hold together (listing source, paid medium, social
\* source) and the first of them decided
C6_Witness ==
  /\ Categorized
  /\ {2, 3, 5} \subseteq HeldRules(input)
  /\ output = "listings"

(***************************************************************************)
(* Properties of getDetailedChannelBreakdown.                              *)
(***************************************************************************)
BreakdownReturned == op = "getDetailedChannelBreakdown" /\ pc = "return"

\* the source rows the backend returned
InputSourceRows == RowsOf(input.sourceResponse)

\* the event rows the backend returned
InputEventRows == RowsOf(input.eventsResponse)

\* what identifies a source row in the output: its dimensions and counts
RowIdentity(row) ==
  <<OrDefault(DimensionValue(row, 0), <<>>),
    OrDefault(DimensionValue(row, 1), <<>>),
    parseInt(OrDefault(MetricValue(row, 0), s_0)),
    parseInt(OrDefault(MetricValue(row, 1), s_0)),
    parseInt(OrDefault(MetricValue(row, 2), s_0))>>

EntryIdentity(m) == <<m.source, m.medium, m.users, m.sessions, m.conversions>>

\* number of entries of the breakdown, over the eight sequences
BreakdownSize(breakdown) ==
  Len(breakdown["organicSearch"]) + Len(breakdown["paidSearch"])
    + Len(breakdown["llmAI"]) + Len(breakdown["listings"])
    + Len(breakdown["social"]) + Len(breakdown["referral"])
    + Len(breakdown["direct"]) + Len(breakdown["other"])

\* the positions <<category, index>> of the breakdown
BreakdownPositions(breakdown) ==
  UNION {{<<c, i>> : i \in DOMAIN breakdown[c]} : c \in DOMAIN breakdown}

\* C7: every source row is in exactly one of the eight sequences, the one
\* named by its own category field, and the number of entries over the
\* eight sequences is the number of input rows.
C7_BreakdownComplete ==
  BreakdownReturned =>
    LET positions == BreakdownPositions(output)
        rowIds == [i \in DOMAIN InputSourceRows |->
                     RowIdentity(InputSourceRows[i])]
        entryIds == [p \in positions |-> EntryIdentity(output[p[1]][p[2]])]
    IN  /\ DOMAIN output = Categories
        /\ BreakdownSize(output) = Len(InputSourceRows)
        /\ \A p \in positions : output[p[1]][p[2]].category = p[1]
        /\ \A i \in DOMAIN rowIds :
              Cardinality({p \in positions : entryIds[p] = rowIds[i]})
                = Cardinality({j \in DOMAIN rowIds : rowIds[j] = rowIds[i]})

\* three rows went to three different sequences, one of them "other"
C7_Witness ==
  /\ BreakdownReturned
  /\ Len(InputSourceRows) = 3
  /\ Len(output["other"]) = 1
  /\ Len(output["listings"]) = 1
  /\ Len(output["organicSearch"]) = 1

\* C8: each of the eight sequences is in non-increasing order of sessions.
C8_SortedBySessions ==
  BreakdownReturned =>
    \A c \in Categories :
       \A i, j \in DOMAIN output[c] :
          i < j => output[c][i].sessions >= output[c][j].sessions

\* the backend returned two rows of one category in increasing order of
\* sessions and the sequence has them in decreasing order
C8_Witness ==
  /\ BreakdownReturned
  /\ \E i, j \in DOMAIN InputSourceRows :
        /\ i < j
        /\ RowIdentity(InputSourceRows[i])[4]
             < RowIdentity(InputSourceRows[j])[4]
        /\ \E c \in Categories : \E k, l \in DOMAIN output[c] :
              /\ k < l
              /\ EntryIdentity(output[c][k]) = RowIdentity(InputSourceRows[j])
              /\ EntryIdentity(output[c][l]) = RowIdentity(InputSourceRows[i])

(***************************************************************************)
(* Properties of the event classification.                                 *)
(***************************************************************************)
ConversionsReturned == op = "getConversionsByChannel" /\ pc = "return"

\* the lower-cased event name of an event row whose name is dimension d
EventNameOf(row, d) == toLowerCase(OrDefault(DimensionValue(row, d), <<>>))

EventCountOf(row) == parseInt(OrDefault(MetricValue(row, 0), s_0))

\* the rows among those at the positions I whose name contains a form-list
\* substring
FormRows(rows, d, I) ==
  {i \in I : \E k \in DOMAIN formEventNames :
                Includes(EventNameOf(rows[i], d), formEventNames[k])}

\* the rows among those at the positions I whose name contains a phone-list
\* substring
PhoneRows(rows, d, I) ==
  {i \in I : \E k \in DOMAIN phoneEventNames :
                Includes(EventNameOf(rows[i], d), phoneEventNames[k])}

RECURSIVE CountSum(_, _)
\* sum of the counts of the rows at the positions I
CountSum(rows, I) ==
  IF I = {} THEN 0
  ELSE LET i == CHOOSE i \in I : TRUE
       IN  EventCountOf(rows[i]) + CountSum(rows, I \ {i})

\* forms and phones are the counts of the form rows and of the phone rows
\* that are no form rows, among the rows I
ClassifiedExclusively(forms, phones, rows, d, I) ==
  /\ forms = CountSum(rows, FormRows(rows, d, I))
  /\ phones = CountSum(rows, PhoneRows(rows, d, I) \ FormRows(rows, d, I))
  /\ forms + phones <= CountSum(rows, I)

\* the event rows of a (source, medium) key
RowsOfKey(rows, key) ==
  {i \in DOMAIN rows :
     SourceMediumKey(OrDefault(DimensionValue(rows[i], 0), <<>>),
                     OrDefault(DimensionValue(rows[i], 1), <<>>)) = key}

\* the event rows of a channel
RowsOfChannel(rows, channel) ==
  {i \in DOMAIN rows : OrDefault(DimensionValue(rows[i], 0), <<>>) = channel}

\* C9: an event whose lower-cased name contains a form-list substring counts
\* only as a form submission, otherwise one containing a phone-list
\* substring counts only as a phone call, otherwise as neither; no row's
\* count is added to both formSubmissions and phoneCalls, in the
\* source/medium breakdown and in the channel breakdown.
C9_FormBeforePhone ==
  /\ BreakdownReturned =>
       \A p \in BreakdownPositions(output) :
          LET m == output[p[1]][p[2]]
          IN  ClassifiedExclusively(m.formSubmissions, m.phoneCalls,
                InputEventRows, 2,
                RowsOfKey(InputEventRows, SourceMediumKey(m.source, m.medium)))
  /\ ConversionsReturned =>
       LET rows == RowsOf(input.eventsResponse)
       IN  /\ ClassifiedExclusively(output.formSubmissions, output.phoneCalls,
                                    rows, 1, DOMAIN rows)
           /\ \A i \in DOMAIN output.byChannel :
                 LET m == output.byChannel[i]
                 IN  ClassifiedExclusively(m.formSubmissions, m.phoneCalls,
                       rows, 1, RowsOfChannel(rows, m.channel))

\* an event named Phone_Form_Submit, with a form and a phone substring, was
\* counted as a form submission and not as a phone call, next to a phone
\* event that was counted as a phone call
C9_Witness ==
  /\ ConversionsReturned
  /\ LET rows == RowsOf(input.eventsResponse)
     IN  /\ Len(rows) = 2
         /\ FormRows(rows, 1, {1}) = {1}
         /\ PhoneRows(rows, 1, {1, 2}) = {1, 2}
         /\ FormRows(rows, 1, {2}) = {}
         /\ output.formSubmissions = EventCountOf(rows[1])
         /\ output.phoneCalls = EventCountOf(rows[2])
         /\ output.formSubmissions > 0
         /\ output.phoneCalls > 0

(***************************************************************************)
(* Properties of the period comparison.                                    *)
(***************************************************************************)
ComparePeriodsReturned == op = "comparePeriods" /\ pc = "return"

CompareWithLastYearReturned ==
  op = "compareWithLastYear" /\ pc = "return" /\ output # RangeError

\* change is (current - previous) / previous * 100 when previous # 0, and
\* otherwise 100 if current > 0 and 0 if not; the three are fractions and the
\* quotient is stated without dividing
ZeroBaselineRule(change, current, previous) ==
  IF previous.n # 0
    THEN change.n * (current.d * previous.n)
           = change.d * 100 * (current.n * previous.d - previous.n * current.d)
    ELSE change = IF current.n > 0 THEN [n |-> 100, d |-> 1]
                  ELSE [n |-> 0, d |-> 1]

PeriodCounts == {"users", "sessions", "pageviews"}

LastYearCounts ==
  {"users", "newUsers", "sessions", "pageviews", "conversions",
   "impressions", "clicks", "formSubmissions", "phoneCalls"}

LastYearRates == {"ctr", "clickToLeadRate"}

\* C10: every change of comparePeriods and of compareWithLastYear follows
\* the zero-baseline rule, with the first period (period1, current) as the
\* current one: (0, 0) gives 0, (5, 0) gives 100 and (50, 100) gives -50.
C10_ZeroBaselineChange ==
  /\ ComparePeriodsReturned =>
       /\ DOMAIN output.changes = PeriodCounts
       /\ output.period1.users = getAggregatedMetrics(input.period1).users
       /\ output.period2.users = getAggregatedMetrics(input.period2).users
       /\ \A m \in PeriodCounts :
             /\ ZeroBaselineRule(output.changes[m],
                                 [n |-> output.period1[m], d |-> 1],
                                 [n |-> output.period2[m], d |-> 1])
             /\ (output.period1[m] = 0 /\ output.period2[m] = 0)
                   => output.changes[m] = [n |-> 0, d |-> 1]
             /\ (output.period1[m] = 5 /\ output.period2[m] = 0)
                   => output.changes[m] = [n |-> 100, d |-> 1]
             /\ (output.period1[m] = 50 /\ output.period2[m] = 100)
                   => output.changes[m] = [n |-> -50, d |-> 1]
  /\ CompareWithLastYearReturned =>
       /\ DOMAIN output.changes = LastYearCounts \cup LastYearRates
       /\ \A m \in LastYearCounts :
             ZeroBaselineRule(output.changes[m],
                              [n |-> output.current[m], d |-> 1],
                              [n |-> output.lastYear[m], d |-> 1])
       /\ \A m \in LastYearRates :
             ZeroBaselineRule(output.changes[m], output.current[m],
                              output.lastYear[m])

\* comparePeriods met the three cases at once: users 50 against 100,
\* sessions 7 against 0, pageviews 0 against 0
C10_Witness ==
  /\ ComparePeriodsReturned
  /\ output.period1 = [users |-> 50, sessions |-> 7, pageviews |-> 0]
  /\ output.period2 = [users |-> 100, sessions |-> 0, pageviews |-> 0]
  /\ output.changes = [users |-> [n |-> -50, d |-> 1],
                       sessions |-> [n |-> 100, d |-> 1],
                       pageviews |-> [n |-> 0, d |-> 1]]

\* compareWithLastYear met a zero baseline and a non-zero one: no search
\* data last year and some this year, 10 users last year and 15 this year
C10_WitnessLastYear ==
  /\ CompareWithLastYearReturned
  /\ output.lastYear.impressions = 0
  /\ output.current.impressions > 0
  /\ output.changes.ctr = [n |-> 100, d |-> 1]
  /\ output.lastYear.users = 10
  /\ output.current.users = 15
  /\ output.changes.users = [n |-> 50, d |-> 1]

(***************************************************************************)
(* Properties of the anomaly detector.                                     *)
(***************************************************************************)
AnomaliesReturned == op = "detectAnomalies" /\ pc = "return"

\* the daily series of the call: date and numeric value of each row
InputSeries == AnomalyValues(input.response)

InputNumbers == [i \in DOMAIN InputSeries |-> InputSeries[i].value]

\* the arithmetic mean of a series and its population standard deviation:
\* the root of the mean, over all N values, of the squared distances to the
\* mean
PopulationMean(numbers) ==
  NumberDiv(NumberSum(numbers, Len(numbers)), Num(Len(numbers)))

RECURSIVE SquaredDistances(_, _, _)
SquaredDistances(numbers, mu, k) ==
  IF k = 0 THEN Num(0)
  ELSE LET dist == NumberSub(numbers[k], mu)
       IN  NumberAdd(SquaredDistances(numbers, mu, k - 1),
                     NumberMul(dist, dist))

PopulationSigma(numbers) ==
  Once(PopulationMean(numbers), LAMBDA mu :
    MathSqrt(NumberDiv(SquaredDistances(numbers, mu, Len(numbers)),
                       Num(Len(numbers)))))

\* |value - mean| / sigma, and 0 for a series without spread
ZScoreSize(value, mu, sigma) ==
  IF NumberGreater(sigma, Num(0))
    THEN NumberDiv(FracAbs(NumberSub(value, mu)), sigma)
    ELSE Num(0)

\* the positions of the series whose z-score is strictly above the threshold
FlaggedPositions ==
  Once(InputNumbers, LAMBDA numbers :
    Once2(PopulationMean(numbers), PopulationSigma(numbers),
          LAMBDA mu, sigma :
            {i \in DOMAIN numbers :
               NumberGreater(ZScoreSize(numbers[i], mu, sigma),
                             input.threshold)}))

SpikeDate == <<"2","0","2","4","-","0","1","-","0","6">>

\* C11: detectAnomalies flags a point exactly when |value - mean| / sigma
\* is strictly greater than the threshold, mean and sigma being the
\* arithmetic mean and the population standard deviation (divide by N) of
\* the whole series; of the series 10,10,10,10,10,50 with threshold 2 only
\* the last point is flagged
C11_FlaggedIffAboveThreshold ==
  AnomaliesReturned =>
    Once2(FlaggedPositions, InputSeries, LAMBDA flagged, series :
      /\ {output.anomalies[k].date : k \in DOMAIN output.anomalies}
           = {series[i].date : i \in flagged}
      /\ Len(output.anomalies) = Cardinality(flagged)
      /\ (input.response = SeriesResponse(SpikeSeries)
            /\ input.threshold = Num(2))
           => [k \in DOMAIN output.anomalies |-> output.anomalies[k].date]
                = <<SpikeDate>>)

\* the series 10,10,10,10,10,50 went through with threshold 2: the sixth
\* day alone was flagged, 9/4 deviations above the mean
C11_Witness ==
  /\ AnomaliesReturned
  /\ input.response = SeriesResponse(SpikeSeries)
  /\ input.threshold = Num(2)
  /\ output.hasAnomaly
  /\ output.anomalies = <<[date |-> SpikeDate, value |-> Num(50),
                           deviation |-> Frac(9, 4)]>>

\* a deviation equal to the threshold was met and not flagged: the series
\* 0, 2 has the deviations -1 and 1
C11_WitnessBoundary ==
  /\ AnomaliesReturned
  /\ input.response = SeriesResponse(<<s_0, <<"2">>>>)
  /\ input.threshold = Num(1)
  /\ output.anomalies = <<>>

\* whether all the values of the series of the call are the same number
ConstantInput ==
  Once(InputNumbers, LAMBDA numbers :
    /\ Len(numbers) > 0
    /\ \A i \in DOMAIN numbers : numbers[i] = numbers[1])

\* C12: a constant daily series is never flagged: for every threshold > 0
\* detectAnomalies returns hasAnomaly = false and an empty anomaly list
C12_ConstantNeverFlagged ==
  (AnomaliesReturned /\ ConstantInput
     /\ NumberGreater(input.threshold, Num(0)))
    => (~output.hasAnomaly /\ output.anomalies = <<>>)

RECURSIVE IsSubsequence(_, _)
\* whether sub is seq with some of its elements left out
IsSubsequence(sub, seq) ==
  IF sub = <<>> THEN TRUE
  ELSE IF seq = <<>> THEN FALSE
  ELSE IF Head(sub) = Head(seq) THEN IsSubsequence(Tail(sub), Tail(seq))
  ELSE IsSubsequence(sub, Tail(seq))

\* C13: the anomaly list returned by detectAnomalies is a subsequence of
\* the input daily series in its original order, and hasAnomaly is true if
\* and only if that list is non-empty
C13_SubsequenceInOrder ==
  AnomaliesReturned =>
    /\ IsSubsequence([k \in DOMAIN output.anomalies |->
                        [date |-> output.anomalies[k].date,
                         value |-> output.anomalies[k].value]],
                     InputSeries)
    /\ output.hasAnomaly <=> (output.anomalies # <<>>)

\* of the three days 0, 2, 10 the first and the third were flagged, in that
\* order, at the threshold 1/2
C13_Witness ==
  /\ AnomaliesReturned
  /\ input.response = SeriesResponse(<<s_0, <<"2">>, s_10>>)
  /\ input.threshold = Frac(1, 2)
  /\ output.hasAnomaly
  /\ Len(output.anomalies) = 2
  /\ output.anomalies[1].date = <<"2","0","2","4","-","0","1","-","0","1">>
  /\ output.anomalies[2].date = <<"2","0","2","4","-","0","1","-","0","3">>

(***************************************************************************)
(* Properties of the date normalization.                                   *)
(***************************************************************************)
FormatDateReturned == op = "formatDate" /\ pc = "return"

\* a string of 8 digits
IsCompactDate(s) == Len(s) = 8 /\ \A i \in 1..8 : IsDigit(s[i])

\* a string written YYYY-MM-DD
IsDashedDate(s) ==
  /\ Len(s) = 10
  /\ \A i \in {1, 2, 3, 4, 6, 7, 9, 10} : IsDigit(s[i])
  /\ s[5] = "-" /\ s[8] = "-"

s_20240115 == <<"2","0","2","4","0","1","1","5">>

s_2024_01_15 == <<"2","0","2","4","-","0","1","-","1","5">>

\* C14: formatDate turns an 8-digit YYYYMMDD value into YYYY-MM-DD
\* ("20240115" becomes "2024-01-15") and returns an already-formatted
\* YYYY-MM-DD string unchanged, so applying it twice gives the same result
\* as applying it once
C14_FormatDateNormalizes ==
  FormatDateReturned =>
    /\ IsCompactDate(input.dateStr) =>
         /\ IsDashedDate(output)
         /\ \A i \in 1..4 : output[i] = input.dateStr[i]
         /\ \A i \in 6..7 : output[i] = input.dateStr[i - 1]
         /\ \A i \in 9..10 : output[i] = input.dateStr[i - 2]
    /\ input.dateStr = s_20240115 => output = s_2024_01_15
    /\ IsDashedDate(input.dateStr) => output = input.dateStr
    /\ formatDate(output) = output

\* "20240115" was normalized to "2024-01-15"
C14_Witness ==
  /\ FormatDateReturned
  /\ input.dateStr = s_20240115
  /\ output = s_2024_01_15

\* an already-formatted date went through unchanged
C14_WitnessDashed ==
  /\ FormatDateReturned
  /\ input.dateStr = s_2024_01_15
  /\ output = s_2024_01_15

(***************************************************************************)
(* Properties of the derived rates.                                        *)
(***************************************************************************)
\* conversions / sessions * 100 of an entry, 0 without sessions
RateBySessions(entry) ==
  IF entry.sessions > 0
    THEN FracMul(FracDiv(Num(entry.conversions), Num(entry.sessions)),
                 Num(100))
    ELSE Num(0)

\* C15: in the source/medium breakdown and in the channel breakdown every
\* entry's clickToLeadRate equals conversions / sessions * 100 when
\* sessions > 0 and 0 otherwise
C15_RateBySessions ==
  /\ BreakdownReturned =>
       \A p \in BreakdownPositions(output) :
         output[p[1]][p[2]].clickToLeadRate
           = RateBySessions(output[p[1]][p[2]])
  /\ ConversionsReturned =>
       \A i \in DOMAIN output.byChannel :
         output.byChannel[i].clickToLeadRate
           = RateBySessions(output.byChannel[i])

RECURSIVE ChannelConversionsSum(_)
\* the conversions of a period: the sum of the conversions metric over the
\* channel rows of the period
ChannelConversionsSum(rows) ==
  IF rows = <<>> THEN 0
  ELSE ChannelConversionsSum(Tail(rows))
         + parseInt(OrDefault(MetricValue(Head(rows), 2), s_0))

\* conversions / clicks * 100, 0 without clicks
RateByClicks(conversions, clicks) ==
  IF clicks > 0
    THEN FracMul(FracDiv(Num(conversions), Num(clicks)), Num(100))
    ELSE Num(0)

\* C16: in compareWithLastYear the clickToLeadRate of each period equals
\* conversions / clicks * 100 when the period's total clicks > 0 and 0
\* otherwise, for the current and for the last-year period
C16_WeeklyRateByClicks ==
  CompareWithLastYearReturned =>
    /\ output.current.clickToLeadRate
         = RateByClicks(
             ChannelConversionsSum(RowsOf(input.backend.current.channelResponse)),
             output.current.clicks)
    /\ output.lastYear.clickToLeadRate
         = RateByClicks(
             ChannelConversionsSum(RowsOf(input.backend.lastYear.channelResponse)),
             output.lastYear.clicks)

\* this year 2 conversions on 10 clicks give the rate 20; last year the
\* search data was unavailable, no clicks, and the rate is 0 although there
\* were 7 conversions
C16_Witness ==
  /\ CompareWithLastYearReturned
  /\ output.current.clicks = 10
  /\ ChannelConversionsSum(RowsOf(input.backend.current.channelResponse)) = 2
  /\ output.current.clickToLeadRate = Num(20)
  /\ output.lastYear.clicks = 0
  /\ ChannelConversionsSum(RowsOf(input.backend.lastYear.channelResponse)) = 7
  /\ output.lastYear.clickToLeadRate = Num(0)

(***************************************************************************)
(* Properties of the failure handling.                                     *)
(***************************************************************************)
WeeklyReturned == op = "getWeeklyDashboardMetrics" /\ pc = "return"

\* the fields of the weekly result that the search query supplies are zero
WeeklySearchFieldsZero ==
  /\ output.totals.impressions = 0
  /\ output.totals.clicks = 0
  /\ output.totals.ctr = Num(0)
  /\ \A i \in DOMAIN output.daily :
       /\ output.daily[i].impressions = 0
       /\ output.daily[i].clicks = 0
       /\ output.daily[i].ctr = Num(0)

\* C17: when the optional search query throws, the operation still returns
\* a result in which every field that query would have supplied is zero:
\* impressions, clicks and ctr of every day and of the totals in
\* getWeeklyDashboardMetrics, and clicks of every channel in
\* getConversionsByChannel
C17_SearchFailureZeroes ==
  /\ (WeeklyReturned /\ input.searchResult = Throws)
       => ("totals" \in DOMAIN output /\ WeeklySearchFieldsZero)
  /\ (ConversionsReturned /\ input.searchResult = Throws)
       => /\ "byChannel" \in DOMAIN output
          /\ \A i \in DOMAIN output.byChannel :
               output.byChannel[i].clicks = 0

\* the part of C17 about getWeeklyDashboardMetrics alone
C17_WeeklyPart ==
  (WeeklyReturned /\ input.searchResult = Throws)
    => ("totals" \in DOMAIN output /\ WeeklySearchFieldsZero)

(***************************************************************************)
(* Properties of the period helpers.                                       *)
(***************************************************************************)
LastCompleteWeekReturned == op = "getLastCompleteWeek" /\ pc = "return"

\* the day number of today in the zone of the call, and of the most recent
\* Sunday on or before it
TodayOfCall == LocalTime(input.zone, input.now) \div 24

SundayOnOrBefore(day) == day - WeekDay(day)

\* C19: the end date of the last complete week is the most recent Sunday on
\* or before today (today itself if today is Sunday), and the start date is
\* the Monday six days before that end date
C19_EndsOnLatestSunday ==
  LastCompleteWeekReturned =>
    /\ output.endDate
         = IsoDate(CivilFromDays(SundayOnOrBefore(TodayOfCall)))
    /\ output.startDate
         = IsoDate(CivilFromDays(SundayOnOrBefore(TodayOfCall) - 6))

\* the part of C19 for a server in UTC on the days that are not a Sunday
C19_WeekdaysInUTC ==
  (LastCompleteWeekReturned /\ input.zone = "UTC"
     /\ WeekDay(TodayOfCall) # 0)
    => /\ output.endDate
            = IsoDate(CivilFromDays(SundayOnOrBefore(TodayOfCall)))
       /\ output.startDate
            = IsoDate(CivilFromDays(SundayOnOrBefore(TodayOfCall) - 6))

\* on a Sunday in UTC the week returned ends seven days before today
C19_SundaysInUTC ==
  (LastCompleteWeekReturned /\ input.zone = "UTC"
     /\ WeekDay(TodayOfCall) = 0)
    => /\ output.endDate = IsoDate(CivilFromDays(TodayOfCall - 7))
       /\ output.startDate = IsoDate(CivilFromDays(TodayOfCall - 13))

SameWeekLastYearReturned ==
  op = "getSameWeekLastYear" /\ pc = "return" /\ output # RangeError

\* the date string s with its year decreased by one, month and day kept
OneYearBack(s) ==
  FourDigitString(DecimalValue(SubSeq(s, 1, 4)) - 1) \o SubSeq(s, 5, 10)

\* C20: getSameWeekLastYear shifts both boundary dates back exactly one
\* calendar year: for every ISO start and end date the result has the same
\* month and day and the year decreased by one, also when a boundary is
\* 29 February
C20_SameDayOneYearBack ==
  SameWeekLastYearReturned =>
    /\ output.startDate = OneYearBack(input.dateRange.startDate)
    /\ output.endDate = OneYearBack(input.dateRange.endDate)

\* the part of C20 for a server in UTC and boundaries other than 29 February
C20_OrdinaryDaysInUTC ==
  (SameWeekLastYearReturned /\ input.zone = "UTC") =>
    /\ SubSeq(input.dateRange.startDate, 6, 10) # <<"0","2","-","2","9">>
         => output.startDate = OneYearBack(input.dateRange.startDate)
    /\ SubSeq(input.dateRange.endDate, 6, 10) # <<"0","2","-","2","9">>
         => output.endDate = OneYearBack(input.dateRange.endDate)

(***************************************************************************)
(* C18: a failing required query fails the whole request.                  *)
(***************************************************************************)
RouteReturned ==
  /\ op \in {"GET /api/analytics", "GET /api/analytics/weekly"}
  /\ pc = "return"

\* the calls into which the request of the state fans out
RequestCalls ==
  IF op = "GET /api/analytics" THEN AnalyticsCalls(input.action)
  ELSE WeeklyCalls

\* the values thrown by the failing required queries of the request
RequiredFailures ==
  {input.failed[key] :
     key \in {k \in DOMAIN input.failed :
                \E i \in DOMAIN RequestCalls :
                  \E j \in DOMAIN FunctionQueries(RequestCalls[i].fn) :
                    /\ RequestCalls[i].name = k[1]
                    /\ FunctionQueries(RequestCalls[i].fn)[j].id = k[2]
                    /\ ~FunctionQueries(RequestCalls[i].fn)[j].optional}}

\* the text a thrown value leaves in the response
MessageOf(thrown) ==
  IF "message" \in DOMAIN thrown THEN thrown.message ELSE "Unknown error"

\* the handler got as far as issuing its queries
QueriesIssued == "uncaught" \notin DOMAIN output

\* C18: when a request has issued its queries and a required one of them
\* fails, the response has success = false, no data field, and as error the
\* message of one of the failing required queries ("Unknown error" when the
\* value thrown is not an Error), whichever query failed and however many
\* of the others succeeded.
C18_RequiredFailureFailsRequest ==
  (RouteReturned /\ QueriesIssued /\ RequiredFailures # {}) =>
    /\ output.success = FALSE
    /\ "data" \notin DOMAIN output
    /\ output.error \in {MessageOf(thrown) : thrown \in RequiredFailures}

\* the dashboard action where only the query of getTopPages fails, the
\* third of five calls
C18_Witness ==
  /\ RouteReturned
  /\ op = "GET /api/analytics"
  /\ input.action = "dashboard"
  /\ DOMAIN input.failed = {<<"getTopPages", "response">>}
  /\ output.success = FALSE
  /\ output.error = "UNAVAILABLE"

\* the weekly request where the second query of the last call fails
C18_WitnessWeekly ==
  /\ RouteReturned
  /\ op = "GET /api/analytics/weekly"
  /\ DOMAIN input.failed = {<<"getDetailedChannelBreakdown", "eventsResponse">>}
  /\ QueriesIssued
  /\ output.success = FALSE
  /\ output.error = "PERMISSION_DENIED"

\* a failure of the optional search query alone does not fail the calls
C18_OptionalFailureResolves ==
  (/\ RouteReturned
   /\ op = "GET /api/analytics/weekly"
   /\ QueriesIssued
   /\ RequiredFailures = {})
    => output.error = MessageOf(TypeErrorOfValues)

(***************************************************************************)
(* C30: the totals of getConversionsByChannel against its channel list.    *)
(***************************************************************************)
RECURSIVE ByChannelSum(_, _)
\* the sum of a numeric field over a list of channel metrics
ByChannelSum(channels, field) ==
  IF channels = <<>> THEN 0
  ELSE channels[1][field] + ByChannelSum(Tail(channels), field)

\* C30: in the result of getConversionsByChannel totalConversions,
\* formSubmissions and phoneCalls equal the sums of conversions,
\* formSubmissions and phoneCalls over byChannel, for any channel rows and
\* event rows.
C30_TotalsAgreeWithChannels ==
  ConversionsReturned =>
    /\ output.totalConversions = ByChannelSum(output.byChannel, "conversions")
    /\ output.formSubmissions = ByChannelSum(output.byChannel, "formSubmissions")
    /\ output.phoneCalls = ByChannelSum(output.byChannel, "phoneCalls")

\* the part that holds: totalConversions is the sum over byChannel
C30_ConversionsAgree ==
  ConversionsReturned =>
    output.totalConversions = ByChannelSum(output.byChannel, "conversions")

\* the part that holds: when every event row belongs to a channel that has
\* exactly one channel row, the event totals agree as well
C30_EventsOfListedChannelsAgree ==
  (/\ ConversionsReturned
   /\ \A e \in DOMAIN RowsOf(input.eventsResponse) :
        Cardinality({i \in DOMAIN RowsOf(input.channelResponse) :
           OrDefault(DimensionValue(RowsOf(input.channelResponse)[i], 0), <<>>)
             = OrDefault(DimensionValue(RowsOf(input.eventsResponse)[e], 0), <<>>)}) = 1)
    => /\ output.formSubmissions = ByChannelSum(output.byChannel, "formSubmissions")
       /\ output.phoneCalls = ByChannelSum(output.byChannel, "phoneCalls")

(***************************************************************************)
(* C23: the join of source rows and event rows.                            *)
(***************************************************************************)
RECURSIVE PairEvents(_, _, _, _)
\* the sum of the counts of the event rows of the pair (source, medium)
\* that are classified as forms (kind "forms") or as phone calls
PairEvents(rows, source, medium, kind) ==
  IF rows = <<>> THEN 0
  ELSE LET row == Head(rows)
           name == EventNameOf(row, 2)
           count == parseInt(OrDefault(MetricValue(row, 0), s_0))
           samePair == /\ OrDefault(DimensionValue(row, 0), <<>>) = source
                       /\ OrDefault(DimensionValue(row, 1), <<>>) = medium
           classified == IF kind = "forms" THEN IsFormEvent(name)
                         ELSE ~IsFormEvent(name) /\ IsPhoneEvent(name)
       IN  (IF samePair /\ classified THEN count ELSE 0)
             + PairEvents(Tail(rows), source, medium, kind)

\* every entry of the breakdown has the events of its own pair
EntriesHavePairEvents ==
  \A p \in BreakdownPositions(output) :
     LET m == output[p[1]][p[2]]
     IN  /\ m.formSubmissions
              = PairEvents(InputEventRows, m.source, m.medium, "forms")
         /\ m.phoneCalls
              = PairEvents(InputEventRows, m.source, m.medium, "phones")

\* C23: in getDetailedChannelBreakdown each source row's formSubmissions
\* (phoneCalls) is the sum of the counts of the form-classified
\* (phone-classified) event rows whose (source, medium) pair equals the
\* row's pair, 0 when there is none; events of another pair are never
\* attributed to it.
C23_EventsJoinedByPair ==
  BreakdownReturned => EntriesHavePairEvents

\* a source or medium of the request holds the separator of the key
HasBar(s) == \E i \in DOMAIN s : s[i] = "|"

BarInInput ==
  \/ \E i \in DOMAIN InputSourceRows : \E d \in 0..1 :
        HasBar(OrDefault(DimensionValue(InputSourceRows[i], d), <<>>))
  \/ \E i \in DOMAIN InputEventRows : \E d \in 0..1 :
        HasBar(OrDefault(DimensionValue(InputEventRows[i], d), <<>>))

\* the part that holds: without the separator in sources and mediums the
\* join is by pair
C23_JoinedByPairWithoutBar ==
  (BreakdownReturned /\ ~BarInInput) => EntriesHavePairEvents

(***************************************************************************)
(* C24: totals and mean-type rates of getWeeklyDashboardMetrics.           *)
(***************************************************************************)
RECURSIVE DailySum(_, _)
\* the sum of a count over the days
DailySum(days, field) ==
  IF days = <<>> THEN 0 ELSE days[1][field] + DailySum(Tail(days), field)

RECURSIVE DailyRateSum(_, _)
\* the sum of a rate over the days
DailyRateSum(days, field) ==
  IF days = <<>> THEN Num(0)
  ELSE FracAdd(days[1][field], DailyRateSum(Tail(days), field))

\* the unweighted arithmetic mean of a rate over the days, 0 without days
UnweightedMean(days, field) ==
  IF days = <<>> THEN Num(0)
  ELSE FracDiv(DailyRateSum(days, field), Num(Len(days)))

\* the daily averageSessionDuration values, which the daily list leaves out
InputDurations ==
  [i \in DOMAIN RowsOf(input.mainResponse) |->
     [avgSessionDuration |->
        parseFloat(OrDefault(MetricValue(RowsOf(input.mainResponse)[i], 7),
                             s_0))]]

\* the mean of a rate weighted by the sessions of the days
SessionWeightedBounceRate(days) ==
  LET weighted == [i \in DOMAIN days |->
                     [r |-> FracMul(days[i].bounceRate, Num(days[i].sessions))]]
  IN  FracDiv(DailyRateSum(weighted, "r"), Num(DailySum(days, "sessions")))

\* C24: in getWeeklyDashboardMetrics the totals users, newUsers, sessions,
\* pageviews, conversions, impressions and clicks are the plain sums of the
\* daily values, and bounceRate, engagementRate and avgSessionDuration are
\* the unweighted arithmetic means of the daily values over the days
\* present, 0 when there are no days.
C24_SumsAndUnweightedMeans ==
  WeeklyReturned =>
    /\ \A f \in {"users", "newUsers", "sessions", "pageviews", "conversions",
                 "impressions", "clicks"} :
          output.totals[f] = DailySum(output.daily, f)
    /\ output.totals.bounceRate = UnweightedMean(output.daily, "bounceRate")
    /\ output.totals.engagementRate
         = UnweightedMean(output.daily, "engagementRate")
    /\ output.totals.avgSessionDuration
         = UnweightedMean(InputDurations, "avgSessionDuration")
    /\ Len(output.daily) = Len(RowsOf(input.mainResponse))

\* two days with different traffic and different bounce rates: the total
\* bounce rate is 37.5, which is not the session-weighted mean
C24_Witness ==
  /\ WeeklyReturned
  /\ Len(output.daily) = 2
  /\ output.daily[1].sessions = 12
  /\ output.daily[2].sessions = 6
  /\ output.totals.sessions = 18
  /\ output.totals.bounceRate = Frac(75, 2)
  /\ output.totals.bounceRate # SessionWeightedBounceRate(output.daily)

\* no days: the means are 0
C24_WitnessNoDays ==
  /\ WeeklyReturned
  /\ output.daily = <<>>
  /\ output.totals.bounceRate = Num(0)
  /\ output.totals.avgSessionDuration = Num(0)

(***************************************************************************)
(* C22: rows with missing values.                                          *)
(***************************************************************************)
MetricsReturned == op = "getMetrics" /\ pc = "return"

\* the value is absent from the row
IsMissing(value) == value = Missing

\* the count read from a metric: 0 when it is missing
CountOrZero(value) == IF IsMissing(value) THEN 0 ELSE parseInt(value)

\* the text read from a dimension: empty when it is missing
TextOrEmpty(value) == IF IsMissing(value) THEN <<>> ELSE value

\* a row of the breakdown request lacks a dimension or a metric
RowLacksValue(row) ==
  \/ \E d \in 0..1 : IsMissing(DimensionValue(row, d))
  \/ \E k \in 0..2 : IsMissing(MetricValue(row, k))

C22_WitnessBreakdown ==
  /\ BreakdownReturned
  /\ Len(InputSourceRows) = 3
  /\ RowLacksValue(InputSourceRows[2])
  /\ ~RowLacksValue(InputSourceRows[1])
  /\ ~RowLacksValue(InputSourceRows[3])
  /\ \E p \in BreakdownPositions(output) :
        /\ output[p[1]][p[2]].source = <<>>
        /\ output[p[1]][p[2]].sessions = 0

(***************************************************************************)
(* C21: divisions and their zero denominators.                             *)
(***************************************************************************)
\* the change reported for a zero baseline
ZeroBaselineChange(current) == IF current > 0 THEN Num(100) ELSE Num(0)

\* the rates of a weekly totals record for zero denominators: days is the
\* number of days of the period
WeeklyRatesGuarded(totals, days) ==
  /\ days = 0 =>
       /\ totals.bounceRate = Num(0)
       /\ totals.engagementRate = Num(0)
       /\ totals.avgSessionDuration = Num(0)
  /\ totals.impressions = 0 => totals.ctr = Num(0)

\* the deviations that detectAnomalies reports are numbers, and 0 when the
\* series has no spread
ReportedDeviationsGuarded ==
  \A k \in DOMAIN output.anomalies :
     /\ ~IsNaNNumber(output.anomalies[k].deviation)
     /\ ~NumberGreater(PopulationSigma(InputNumbers), Num(0))
          => output.anomalies[k].deviation = Num(0)

\* C21 as stated: in every derived rate a zero denominator is checked first
\* and the zero default is substituted: clickToLeadRate, ctr, the mean-type
\* rates, the period change, and the mean and the deviations of the anomaly
\* detector, an empty daily series included.
C21_ZeroDefaultForZeroDenominator ==
  /\ WeeklyReturned =>
       WeeklyRatesGuarded(output.totals, Len(output.daily))
  /\ ComparePeriodsReturned =>
       \A m \in PeriodCounts :
          output.period2[m] = 0 => output.changes[m] = Num(0)
  /\ CompareWithLastYearReturned =>
       /\ output.current.clicks = 0 => output.current.clickToLeadRate = Num(0)
       /\ output.lastYear.clicks = 0
            => output.lastYear.clickToLeadRate = Num(0)
       /\ \A m \in LastYearCounts :
            output.lastYear[m] = 0 => output.changes[m] = Num(0)
  /\ AnomaliesReturned =>
       /\ ReportedDeviationsGuarded
       /\ InputNumbers = <<>> => SeriesMean(InputNumbers) = Num(0)

\* C21, amended: a rate with a zero denominator is 0 for clickToLeadRate,
\* ctr and the mean-type rates; the period change for a zero baseline is
\* 100 when the current value is positive and 0 otherwise; a reported
\* deviation is a number and is 0 for a series without spread; the mean of
\* an empty series is the unchecked quotient 0 / 0, which is NaN, and the
\* result then has no anomalies.
C21_RatesForZeroDenominator ==
  /\ WeeklyReturned =>
       WeeklyRatesGuarded(output.totals, Len(output.daily))
  /\ ComparePeriodsReturned =>
       \A m \in PeriodCounts :
          output.period2[m] = 0
            => output.changes[m] = ZeroBaselineChange(output.period1[m])
  /\ CompareWithLastYearReturned =>
       /\ output.current.clicks = 0 => output.current.clickToLeadRate = Num(0)
       /\ output.lastYear.clicks = 0
            => output.lastYear.clickToLeadRate = Num(0)
       /\ \A m \in LastYearCounts :
            output.lastYear[m] = 0
              => output.changes[m] = ZeroBaselineChange(output.current[m])
  /\ AnomaliesReturned =>
       /\ ReportedDeviationsGuarded
       /\ InputNumbers = <<>> =>
            /\ IsNaNNumber(SeriesMean(InputNumbers))
            /\ output = [hasAnomaly |-> FALSE, anomalies |-> <<>>]

\* detectAnomalies returned for a response without rows
C21_Witness ==
  /\ AnomaliesReturned
  /\ InputNumbers = <<>>
  /\ IsNaNNumber(SeriesMean(InputNumbers))
  /\ output.hasAnomaly = FALSE

\* a week without days and without impressions
C21_WitnessWeekly ==
  /\ WeeklyReturned
  /\ output.daily = <<>>
  /\ output.totals.impressions = 0
  /\ output.totals.ctr = Num(0)
  /\ output.totals.bounceRate = Num(0)

\* a year-over-year comparison from a zero baseline, with no clicks last
\* year
C21_WitnessLastYear ==
  /\ CompareWithLastYearReturned
  /\ output.lastYear.clicks = 0
  /\ output.current.clicks > 0
  /\ output.changes.clicks = Num(100)
  /\ output.lastYear.clickToLeadRate = Num(0)

\* a constant series reported with deviation 0 under a negative threshold
C21_WitnessNoSpread ==
  /\ AnomaliesReturned
  /\ Len(output.anomalies) > 0
  /\ \A k \in DOMAIN output.anomalies : output.anomalies[k].deviation = Num(0)

(***************************************************************************)
(* C26: the answer of the weekly route.                                    *)
(***************************************************************************)
WeeklyRouteReturned == op = "GET /api/analytics/weekly" /\ pc = "return"

\* C26: the weekly route always answers with a body of the form
\* {success, ...}, for every period parameter and for ISO dates and
\* relative tokens alike: no exception of the computation of the last-year
\* period leaves the handler.
C26_WeeklyAlwaysAnswers ==
  WeeklyRouteReturned =>
    /\ "uncaught" \notin DOMAIN output
    /\ "success" \in DOMAIN output

\* the part that holds: with the last complete week or with ISO dates the
\* handler answers with a body
C26_AnswersForCalendarDates ==
  (/\ WeeklyRouteReturned
   /\ \/ OrDefault(input.request.period, s_lastWeek) = s_lastWeek
      \/ /\ DateParses(OrDefault(input.request.startDate, s_7daysAgo))
         /\ DateParses(OrDefault(input.request.endDate, s_yesterday)))
    => "success" \in DOMAIN output

(***************************************************************************)
(* C25: the chat tool loop.                                                *)
(***************************************************************************)
\* the names of the tools offered to the model
KnownToolNames ==
  {"get_metrics", "get_aggregated_metrics", "get_top_pages",
   "get_traffic_sources", "compare_periods", "detect_anomalies"}

\* the tool_use blocks of a content, in their order
ToolUsesOf(content) ==
  LET positions == {i \in DOMAIN content : content[i].type = "tool_use"}
      nth[k \in 1..Cardinality(positions)] ==
        CHOOSE i \in positions :
          Cardinality({j \in positions : j < i}) = k - 1
  IN  [k \in 1..Cardinality(positions) |-> content[nth[k]]]

\* results answers uses: one tool_result per tool_use, same id, same order,
\* and the error value for a name that is no tool
Answers(results, uses) ==
  /\ Len(results) = Len(uses)
  /\ \A i \in DOMAIN uses :
       /\ results[i].type = "tool_result"
       /\ results[i].tool_use_id = uses[i].id
       /\ IF uses[i].name \in KnownToolNames
            THEN "result" \in DOMAIN results[i].content.json
            ELSE results[i].content
                   = [json |-> [error |-> <<"Unknown tool: ", uses[i].name>>]]

\* the messages pushed by the loop: the k-th response that stopped for tool
\* use and the results sent after it
PushedResponse(k) == state.messages[Len(input.conversationHistory) + 2 * k]

PushedResults(k) == state.messages[Len(input.conversationHistory) + 2 * k + 1]

\* C25: in the chat tool loop the message sent after a response that
\* stopped for tool use carries exactly one tool_result per tool_use block,
\* with the same tool_use_id and in the same order; an unknown tool name
\* gives an error value as its result and does not abort the loop; chat
\* returns only after a response whose stop reason is not tool_use.
C25_ToolLoop ==
  op = "chat" =>
    /\ Len(state.messages) = Len(input.conversationHistory) + 1 + 2 * Rounds
    /\ \A k \in 1..Rounds :
         /\ PushedResponse(k).role = "assistant"
         /\ PushedResults(k).role = "user"
         /\ Answers(PushedResults(k).content,
                    ToolUsesOf(PushedResponse(k).content))
    /\ (pc = "create" /\ Rounds > 0) =>
         /\ state.response.stop_reason = "tool_use"
         /\ PushedResponse(Rounds).content = state.response.content
    /\ pc = "tools" => state.response.stop_reason = "tool_use"
    /\ pc = "return" =>
         /\ state.response.stop_reason \notin {"tool_use", "none"}
         /\ output = ResponseText(state.response.content)
    /\ (pc = "throw" /\ output.thrown = "executeToolCall") =>
         output.toolName \in KnownToolNames

\* the request in flight after a response with a use of get_metrics and a
\* use of a name that is no tool: two results, the second the error
C25_Witness ==
  /\ op = "chat"
  /\ pc = "create"
  /\ Rounds = 1
  /\ state.response.content
       = <<[type |-> "tool_use", id |-> <<"toolu", 1, 1>>, name |-> "get_metrics"],
           [type |-> "tool_use", id |-> <<"toolu", 1, 2>>, name |-> "export_csv"]>>
  /\ Len(PushedResults(1).content) = 2
  /\ PushedResults(1).content[1].tool_use_id = <<"toolu", 1, 1>>
  /\ PushedResults(1).content[2].tool_use_id = <<"toolu", 1, 2>>
  /\ "error" \in DOMAIN PushedResults(1).content[2].content.json

\* chat returned after two rounds of tool use
C25_WitnessReturn ==
  /\ op = "chat"
  /\ pc = "return"
  /\ Rounds = 2
  /\ state.response.stop_reason = "end_turn"
  /\ output = "answer"
\* the range or period the page has selected
Selected ==
  IF op = "Dashboard" THEN state.dateRange ELSE state.periodType

\* a dashboard page whose fetches have all settled and that shows data
SettledWithData ==
  /\ op \in {"Dashboard", "WeeklyDashboard"}
  /\ state.inflight = {}
  /\ state.error = Null
  /\ state.data # Null

\* C27: on a dashboard page, once every fetch has settled, the data shown
\* is the response to the range or period selected last, whatever the order
\* in which the responses arrived.
C27_LatestSelectionShown ==
  SettledWithData => state.data.selection = Selected

\* C27 on the weekly page alone: its period buttons are rendered only
\* while nothing is loading, so its fetches never overlap.
C27_WeeklyLatestSelectionShown ==
  (op = "WeeklyDashboard" /\ SettledWithData)
    => state.data.selection = state.periodType

\* the weekly page has moved to the other period and shows its data
C27_WeeklyWitness ==
  /\ op = "WeeklyDashboard"
  /\ SettledWithData
  /\ state.periodType = "last7days"
  /\ state.data.selection = "last7days"

\* C28: on a dashboard page isLoading is true whenever a fetch is in
\* flight, and false only when none is.
C28_LoadingWhileInFlight ==
  (op \in {"Dashboard", "WeeklyDashboard"})
    => (state.isLoading <=> state.inflight # {})

\* C28 on the weekly page alone
C28_WeeklyLoadingWhileInFlight ==
  op = "WeeklyDashboard" => (state.isLoading <=> state.inflight # {})

\* C28 read as an implication only from the fetches to the flag
C28_InFlightImpliesLoading ==
  (op \in {"Dashboard", "WeeklyDashboard"})
    => (state.inflight # {} => state.isLoading)
\* the role the i-th message of a transcript of alternating turns has
TurnRole(i) == IF i % 2 = 1 THEN "user" ELSE "assistant"

\* the assistant messages that can follow a user message
AnswersOf(userMessage) ==
  {<<"answer to ">> \o userMessage.content,
   <<"report ", "daily">>, <<"report ", "weekly">>, <<"report ", "monthly">>,
   <<"Error: ", "agent error">>,
   <<"Error: ", "Failed to get response">>,
   <<"Error: ">>,
   <<"Error: Failed to connect to the server">>,
   <<"Error: Failed to generate report">>}

\* the transcript is user and assistant messages in turn, each assistant
\* message answers the user message before it, and isLoading is true
\* exactly while the last user message has no answer yet
TranscriptInTurns ==
  op = "AIChat" =>
    /\ \A i \in DOMAIN state.messages :
         /\ state.messages[i].role = TurnRole(i)
         /\ i % 2 = 0 =>
              state.messages[i].content \in AnswersOf(state.messages[i - 1])
    /\ state.isLoading <=> Len(state.messages) % 2 = 1
    /\ state.isLoading <=> state.inflight # {}

\* the i-th message is a user message
UserMessageAt(i) ==
  /\ op = "AIChat"
  /\ Len(state.messages) >= i
  /\ state.messages[i].role = "user"

\* the i-th message has its assistant message and nothing is loading
AnsweredAt(i) ==
  /\ Len(state.messages) > i
  /\ state.messages[i + 1].role = "assistant"
  /\ ~state.isLoading

\* a call of sendMessage while a request is loading or the input is blank
\* leaves the panel as it is
SendMessageGuarded ==
  (/\ op = "AIChat"
   /\ pc' = "sendMessage"
   /\ state.isLoading \/ Trim(state.input) = <<>>)
    => state' = state

\* C29: in the chat panel every user message of the transcript is
\* eventually followed by exactly one assistant message, the response or an
\* error text, after which isLoading is false again; and sendMessage does
\* nothing while isLoading is true or the input is blank.
C29_EveryMessageAnsweredOnce ==
  /\ []TranscriptInTurns
  /\ [][SendMessageGuarded]_vars
  /\ \A i \in 1..(2 * MaxTurns) : UserMessageAt(i) ~> AnsweredAt(i)

\* two turns are over, the first with a response and the second with an
\* error text
C29_Witness ==
  /\ op = "AIChat"
  /\ Len(state.messages) = 4
  /\ ~state.isLoading
  /\ state.messages[1].content = <<"h", "i">>
  /\ state.messages[2].content = <<"answer to ", "h", "i">>
  /\ state.messages[4].content = <<"Error: Failed to connect to the server">>

\* sendMessage has been called with an input of white space only, and the
\* transcript is still empty
C29_WitnessBlank ==
  /\ op = "AIChat"
  /\ pc = "sendMessage"
  /\ state.input = <<" ">>
  /\ state.messages = <<>>
  /\ ~state.isLoading

\* a report request is in flight
C29_WitnessReport ==
  /\ op = "AIChat"
  /\ state.isLoading
  /\ Len(state.messages) = 1
  /\ state.messages[1].content = <<"Generate ", "weekly", " report">>


====
